\* One job under fairness, with every loss and failure possible, and a feed of up
\* to six events read in batches of two.
SPECIFICATION LiveSpec
CONSTANTS
  Jobs = {j1}
  Keys = {k1}
  DedupeKey <- OneKey
  Workers = {w1, w2}
  Dispatchers = {beat}
  Slots = {s1}
  MaxAttempts = 2
  MaxStages = 0
  MaxMessages = 1
  NoJob = NoJob
  Event = {e1}
  Batch = 2
  MaxEvents = 5
INVARIANTS
  StreamLosesNothing
PROPERTIES
  KeepsFairContract
  BrowserCatchesUp
CHECK_DEADLOCK FALSE
