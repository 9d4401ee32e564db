\* A change between a test's read and its write, against what the table says.
SPECIFICATION ConfigSpec
CONSTANTS
  Configs = {1}
  Settings = {x, y}
  ApiKeys = {key}
  NoKey = NoKey
  NoConfig = NoConfig
  ModelTests = {probe1}
  ModelJobs = {j1}
  MaxConfigRevision = 2
INVARIANTS
  CapabilitiesAreOfRevision
CHECK_DEADLOCK FALSE
