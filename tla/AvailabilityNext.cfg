\* The next version against what the command promises.
SPECIFICATION AvailSpec
CONSTANTS
  t1 = t1
  t2 = t2
  t3 = t3
  Dates = {1, 2}
  Tasks = {t1}
  Need <- Needs
  Fixed <- None
  Quotas = {2, 4}
  Clients = {c1, c2}
  Forms <- AllForms
  MaxVersions = 3
  MaxRowRevision = 1
SYMMETRY SameClients
INVARIANTS
  NextVersionIsFree
CHECK_DEADLOCK FALSE
