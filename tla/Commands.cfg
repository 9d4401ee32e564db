\* One area at a time: the idempotency store, the life of goals, links, model
\* configurations, accounts and sessions, the rate limiter.
SPECIFICATION CommandSpec
CONSTANTS
  s1 = s1
  s2 = s2
  s3 = s3
  s4 = s4
  k1 = k1
  cancel_job = cancel_job
  pause_goal = pause_goal
  d1 = d1
  d2 = d2
  Sends = {s1, s2, s3, s4}
  Keys = {k1}
  WriteOperations = {cancel_job, pause_goal}
  Details = {d1, d2}
  KeyOf <- SameKey
  OperationOf <- FourRequests
  DetailOf <- TwoDetails
  WithDetail = {cancel_job}
  Retention = 3
  MaxWait = 1
  MaxClock = 7
  NoRecord = NoRecord
  NoSend = NoSend
  NoDetail = NoDetail
  goal = goal
  derived = derived
  u1 = u1
  u2 = u2
  u3 = u3
  Goals = {goal, derived}
  Plans <- TwoPlans
  GoalOfPlan <- PlansOfOneGoal
  TasksOf <- SharedTasks
  Batched <- FirstIsBatched
  Clients = {tab1, tab2}
  MaxRevision <- GoalRevisions
  MaxEdits = 1
  NoPlan = NoPlan
  NoGoal = NoGoal
  t1 = t1
  t2 = t2
  t3 = t3
  LinkTasks = {t1, t2, t3}
  GoalOf <- ThreeGoals
  Unplanned = {t3}
  l12 = l12
  l13 = l13
  l23 = l23
  again = again
  LinkIds = {l12, l13, l23, again}
  PairOf <- ThreePairs
  Proposals = {p1, p2}
  MaxPlanning = 3
  NoLink = NoLink
  Accounts = {user}
  Passwords = {pw1, pw2}
  Requests = {1, 2, 3}
  NoRequest = NoRequest
  NoAccount = NoAccount
  IdleTimeout = 2
  Lifetime = 3
  SeenInterval = 1
  TokenLifetime = 1
  MaxTime = 2
  login = login
  other = other
  Slots = {login, other}
  Limit <- TwoLimits
  Window <- TwoWindows
  LongestWindow = 3
  PruneAbove = 1
  Threads = {thread1, thread2}
  NoSlot = NoSlot
  MaxLockWait = 1
  MaxReading = 7
  Configs = {1, 2}
  Settings = {x}
  ApiKeys = {key}
  NoKey = NoKey
  NoConfig = NoConfig
  ModelTests = {probe1}
  ModelJobs = {j1}
  MaxConfigRevision = 3
INVARIANTS
  CommandsTypeOK
  ExecutionsAreFarApart
  RecordsMatchEffects
  ReplayIsOfSameOperation
  ActivePlanIsCurrent
  TasksFollowPlans
  RevisionNamesTheRow
  ClosureFitsStatus
  DependenciesAreAcyclic
  EdgesGoWithLinks
  ProposalShowsWhatItRemoves
  RemovedByOneProposal
  JobRunsWhatItBound
  SessionsFollowThePassword
  PasswordIsTheLastOneSet
  TokenResetsOnce
  LimitHolds
CHECK_DEADLOCK FALSE
