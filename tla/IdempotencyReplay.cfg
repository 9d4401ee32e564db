\* One key for two goals, against what the documents say of the store.
SPECIFICATION Spec
CONSTANTS
  s1 = s1
  s2 = s2
  s3 = s3
  s4 = s4
  k1 = k1
  cancel_job = cancel_job
  pause_goal = pause_goal
  d1 = d1
  d2 = d2
  Sends = {s1, s2, s3, s4}
  Keys = {k1}
  WriteOperations = {cancel_job, pause_goal}
  Details = {d1, d2}
  KeyOf <- SameKey
  OperationOf <- PausesOnly
  DetailOf <- TwoDetails
  WithDetail = {cancel_job}
  Retention = 3
  MaxWait = 1
  MaxClock = 4
  NoRecord = NoRecord
  NoSend = NoSend
  NoDetail = NoDetail
INVARIANTS
  ReplayIsOfSameContent
CHECK_DEADLOCK FALSE
