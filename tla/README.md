# GoalFlow in TLA+

GoalFlow plans long-term goals: a user writes down goals, gets routes and plans
for them from a model, and has a daily agenda computed from the tasks of the
active plans. The backend (`src/backend/src/goalflow`, Python, FastAPI,
SQLAlchemy on SQLite, Celery on Redis) is what these modules are about.

This directory holds TLA+ modules translated from the code, TLC configurations
that check them on small instances, and proofs checked by TLAPS for every value
of the constants. `PROJECT.json` names, for each definition, the lines it was
translated from. Paths below are relative to `src/backend/src/goalflow`.

## 1. The system

### 1.1 What everything rests on

*One writer.* Every write goes through `Database.write` (`db/session.py:48-63`),
which opens the transaction with `BEGIN IMMEDIATE`. SQLite therefore runs write
transactions one after the other: **a write transaction is one action** in every
module, with all the rows it touches. It can fail in two ways, and both leave
the database as it was: an exception inside it, or no lock within
`BUSY_TIMEOUT_MS` (5 s). Read transactions see one snapshot.

*Everything else is outside.* What the code does between two transactions
(calling a model, publishing to the broker, computing an agenda, sleeping) can be
interleaved with any other process. The places where a value read in one
transaction is used in the next are the system's hard places.

*Processes.* API processes (one thread per request), Celery workers (one process
per job, a heartbeat thread beside it), Celery Beat, which starts the recovery
scan, the outbox dispatch and the purge, and the browser. They share the
database and the broker, and nothing else.

### 1.2 Components

| Component | State | Operations | What is hard |
|---|---|---|---|
| **jobs** (`jobs/`) | `jobs`, `job_events`, `outbox_events`; broker messages; per worker the attempt it runs and its lease | `submit_job`, `cancel_job`, `dispatch_outbox`, `recover`, `run_job` with `_claim`, heartbeat, checkpoints, stage events, `_commit`, `_settle*`, `_finish_stale` | workers that die or return late, leases taken away, lost and repeated messages, cancellation racing the commit, several dispatchers |
| **event stream** (`jobs/stream.py`, `api/routes/jobs.py`) | one generator per connection, `Last-Event-ID` in the browser | `watch_job`, `follow_events`, `_poll` | broken connections, full batches, the end of the job |
| **idempotency** (`idempotency/`) | `idempotency_requests` | `run_idempotent`, `purge_expired` | retries racing with the first send and with expiry; clocks read before the lock is held |
| **scheduling** (`scheduling/`) | `user_planning_state` (revision, current agenda), preferences, availability versions, overrides, agendas | the commands that change them, `ensure_agenda`, `generate_agenda`, `persist_agenda` | an agenda computed outside a transaction from state that moves |
| **agenda engine** (`scheduling/engine.py`) | none (pure) | `calculate_agenda` | limits at their boundary, dependencies, splitting |
| **goals** (`goals/`) | goals, profiles, routes, plan versions, task memberships, closures | profile and route selection, `activate_plan`, `pause_goal`, `resume_goal`, `close_goal`, `undo_closure`, `derive_goal` | one active plan per goal, history that must not change, undo within 24 h |
| **links** (`links/`) | goal links, dependency edges, change proposals | propose, confirm, propose unlink, accept (two transactions), reject | acyclicity across proposals, a proposal that goes stale while it is accepted |
| **model configurations** (`model_configs/`) | configurations: default flag, capabilities, revision; the reference a job keeps | create, update, delete, set default, test, `get_default_for_job`, `build_model_for_job` | a probe between two transactions; a configuration that changes between two attempts of a job |
| **auth** (`auth/service.py`) | users, credentials, sessions, reset tokens | register, login, authenticate, logout, change password, reset, issue a token, disable | hashes computed and passwords verified between a read and the write that relies on it |
| **rate limiter** (`auth/rate_limit.py`) | a table of windows in memory, under a lock | `hit` | a clock read before the lock; a pruning that concerns every key |
| **HTTP API** (`api/`) | none of its own | routes | thin; the routes of jobs are modelled with their components |
| conversations, agent | tables only | none yet | - |

Interactions: the HTTP routes call the services inside `run_idempotent`, so the
idempotency record is committed with the business writes. `ensure_agenda` (and
later the model-backed operations) submit jobs with a dedupe key, `run_job` calls
the handler and commits its result together with the job's status. The dispatcher
is called by the API right after a submission and by Beat. `follow_events` reads
what `append_event` wrote. Commands on goals, links and availability change what
the next agenda is computed from; `user_planning_state.revision` is how a job
notices.

### 1.3 What makes each component right

* **jobs**: a business result is committed at most once, by the attempt that
  holds the lease, together with the status; a finished job never changes; a
  request to cancel that was accepted is not overtaken; one holder per dedupe
  key; the event log tells the same story as the status; a queued job is always
  on its way to a worker; every job ends.
* **event stream**: every event once, in order, over any number of connections;
  a stream that ends has delivered everything.
* **idempotency**: one execution per key and retention period; a replay is the
  answer to the same request (the callers' hashes keep that for the operation only, see
  section 5); a failed request leaves nothing.
* **scheduling**: the current agenda belongs to the current revision or one is
  being computed; versions are consecutive; history is immutable.
* **engine**: the day's capacity and the least length of a session respected, no
  task twice, urgent tasks first, every task placed, deferred or reported.
* **goals**: at most one active plan; tasks follow their plan; closure can be
  undone exactly.
* **links**: the dependency graph stays acyclic; edges exist only under active
  links; a stale proposal is never applied.
* **model configurations**: a job runs with the endpoint and credential it was
  bound to; the capabilities shown belong to the revision that was tested.
* **auth**: no session survives the password it was opened with, or its account;
  the password in force is the one set last; a reset token works once; nobody gets
  more attempts in a window than its rule allows.

`PROJECT.json` lists under `hazards` the line where each can go wrong.

## 2. Modules

| Module | Contents | State in the code |
|---|---|---|
| `Jobs` | the jobs package as concurrent processes | the three tables, the broker, one attempt per worker, one position per dispatcher and row |
| `JobContract` | what the package promises to its callers | - |
| `JobFeed` | what a reader of one job's log relies on | `job_events` of one job and whether the status is terminal |
| `JobStream` | the SSE stream, extends `JobFeed` | generator variables, wire, browser |
| `Idempotency` | the store under racing sends, clocks and purge | `idempotency_requests`, and what was committed |
| `Planning` | how a day gets its agenda while its inputs change | planning revision, agenda revisions of each day, one attempt per worker; jobs as in `JobContract` |
| `Availability` | quotas, overrides and task constraints saved from forms | `availability_versions`, `daily_overrides`, `task_day_constraints`; what each client has open |
| `Goals` | the life of goals, their profiles, plans and tasks, under clients with old revisions | `goals`, `goal_profile_drafts`, `plan_versions`, `tasks`; what each client has read |
| `Links` | links between goals, dependencies, change proposals | `goal_links`, `task_dependencies`, `change_proposals`, planning revision; requests between the two transactions of an acceptance |
| `ModelConfigs` | model configurations, their tests, and the jobs that bind them | `model_configs`; tests under way; the reference of each job |
| `Auth` | accounts, sessions and reset tokens under overlapping requests | `users`, `password_credentials`, `sessions`, `password_reset_tokens`; what each request has read |
| `RateLimit` | the fixed window limiter and the threads in front of its lock | `_windows`; what each thread is about to count |
| `AgendaEngine` | `calculate_agenda`, one task at a time | the local variables of the loop |
| `MCJobs`, `MCSubmission`, `MCIdempotency`, `MCPlanning`, `MCAvailability`, `MCEngine`, `MCGoals` | small instances of one module | - |
| `MCLiveness`, `MCScheduling`, `MCCommands` | small instances of several modules | - |
| `PlanningProofs`, `GoalsProofs`, `LinksProofs`, `AuthProofs` | theorems about the module each is named after | - |
| `JobsProofs` | theorems about `Jobs`, `JobStream`, their composition `MCLiveness`, and a stream that watches a job | - |
| `SchedulingProofs` | theorems about `Availability`, `AgendaEngine` and the composition `MCScheduling` | - |
| `CommandsProofs` | theorems about `Idempotency`, `ModelConfigs`, `RateLimit` and the composition `MCCommands` | - |
| `SumTheorems` | lemmas about sums over finite sets | - |

How they fit together: `Jobs` **implements** `JobContract` (property
`KeepsContract`, with fairness `KeepsFairContract`) and, per job, `JobFeed`
(`EveryLogIsAFeed`). `JobStream` is written against `JobFeed` only, so that what
it shows holds of the log of every job without composing the two state spaces;
`JobsProofs` proves it of the composition (`WatchedCorrectly`).
`Planning` **uses** the actions of `JobContract` (INSTANCE with its own keys, the
pairs of day and revision), so it holds of whatever the jobs package does
inside. `Availability` and `Links` are sources of the steps `Planning` calls
`ChangePlanning`, `Goals` of those it calls `ChangeGoal`; `AgendaEngine` is what
happens inside its step `Compute`.

`MCCommands` (idempotency, goals, links, model configurations, auth, rate limiter),
`MCScheduling` (planning, availability, engine) and `MCLiveness` (jobs, stream)
extend several modules and let one of them move in each behaviour (`area`,
`moving`): the modules have no variable in common and every property is about one
of them, so their interleavings would show nothing more and cost the product of
their states. `MCSubmission` has two parts as well, both of them of `Jobs`.

### 2.1 Jobs

`job[j]` is the row: status, attempts, lease token, `cancel_requested_at`,
revision. The lease token is fresh for every claim and every claim counts one
attempt, so the number of the attempt stands for the token. All deadlines are
reduced to one flag `due`, since a job waits for one deadline at a time: the
lease while it runs, the backoff while it waits for a retry, the five minutes of
`STUCK_QUEUED_AFTER` while it is queued. `DeadlinePasses` sets the flag at any
moment, which covers every clock, every lease duration and every backoff.

`worker[w]` is where a process stands in `run_job`: `received` (before `_claim`),
`computing` (in the handler), `returned`, `committing`, and then the transaction
that ends the attempt: `retry`, `fail` (`_settle`), `unfinished`
(`_settle_unfinished`), `stale` (`_finish_stale`). Handlers are any program made
of stages, checkpoints, returning and raising. The heartbeat thread is the action
`Heartbeat`, possible in every phase; it may renew a lease that has expired as
long as no scan has seen it, as the code does.

`progress[d][r]` is where a call of `dispatch_outbox` stands with a row: read,
published, failed. Rows marked sent are never read again, so a row is a slot that
becomes free. `broker[j]` counts the messages for a job. `published[j]` is a
history variable: the attempts whose business result was committed.

| Code | Action |
|---|---|
| `submit_job` | `Submit`; with a held key it returns the other job and changes nothing (`KeyIsHeld`) |
| `cancel_job`, `_request_cancellation` | `Cancel` |
| `dispatch_outbox` | `DispatchRead`, `Publish`, `PublishFails`, `Mark`, `MarkFails` |
| `_claim` | `Claim` |
| `_Heartbeat._run` | `Heartbeat` |
| `JobContext.checkpoint`, `stage_completed` | `Checkpoint`, `StageCompleted` |
| handler returns or raises, `run_job`'s except clauses | `HandlerReturns`, `Raise` |
| `_commit` | `Commit` |
| `_settle`, `_settle_unfinished`, `_finish_stale` | `Settle`, `SettleUnfinished`, `FinishStale` |
| `recover` | `Recover`, one step for all jobs, as it is one transaction |
| process deaths, a write that cannot get the lock | `WorkerDies`, `DispatcherDies` |
| Redis loses what it holds | `LoseMessages` (external) |

Left out: the payload and the input snapshot, the text of errors, the batch limit
of 100 rows in `dispatch_outbox`, `available_at` ordering, and the kinds of jobs.

### 2.2 JobStream

The generator of `follow_events`, one action per step between two awaits: `Poll`
(status and events in one read transaction), `Yield`, `BatchDone`, `TimeLimit`.
The network and the browser are external: events arrive in order until the
connection breaks, and the browser reconnects with the last id it received.

### 2.3 Idempotency

A send reads the clock (`Send`), waits for the write lock, and is then replayed,
refused, executed or rolled back. Time is a counter; `MaxWait` stands for the
busy timeout, so that the order of transactions may differ from the order of
their clocks by that much. A request is an operation and a detail, which stands for
path parameters and body. `Hash` is what the callers make of them: the operation and
the detail for the operations in `WithDetail` (`cancel_job`, `api/routes/jobs.py:188-194`),
the operation only for all others (`idempotency_replay` in section 5).

### 2.4 Planning

A job is a triple: day, input revision, number of the submission. `Ensure(d)` is
`ensure_agenda`: it accepts a job for the day and the current revision unless one
holds their key. A worker goes through `ReadRevision` (`planning_revision`, a
transaction of its own), `ReadData` (the rest of `build_snapshot`), `Compute`,
and `Commit`, in which the revision is compared a last time and the agenda
becomes the current one together with the job's success. `Settle` is the
transaction that ends a job otherwise, `AttemptEnds` a death or an error worth
retrying. What the snapshot contains is reduced to when it was read: at which
revision (`readAt`) and after how many changes that leave the revision alone
(`quietAt`).

| Code | Action |
|---|---|
| `update_preferences`, `update_availability`, `override_day`, `constrain_task`, confirming a link or its removal | `ChangePlanning` |
| `activate_plan`, `pause_goal`, `resume_goal`, `close_goal`, `undo_closure` | `ChangeGoal` |
| `ensure_agenda` | `Ensure` |
| `build_snapshot` | `ReadRevision`, `ReadData` |
| `generate_agenda` with `persist_agenda` | `Compute`, `Commit` |
| `cancel_job`, attempts used up | `Cancel`, `GivesUp` |

`JobContract` does not say how many attempts work on a job at once, so here any
number may, and the first to end it wins; the real lease allows fewer behaviours.
`Tries` bounds the submissions for one day and revision; the last of them is not
cancelled or lost, or the bound would look like a failure of the system.

### 2.5 Availability

A client opens a form (the row it is about and the revision it saw) and saves it
later; each save is one write transaction of the code, with its checks in the
code's order of importance: the revision, then uniqueness or the budget.
`override` and `constraint` are functions with revision 0 where the table has no
row; a cleared constraint keeps its row and its count. `Latest` is the query of
`_latest_availability`, which takes no date. `Fixed` gives each day the tasks that
count as mandatory without a constraint (in progress, or due that day).
`ConstraintsFit` measures a day with the override or else the version in force on it
(`MinutesInForce`, as 03 and the docstring of `AvailabilityVersion` mean it), not with the
code's `Capacity`. The two agree unless a version of a later date is saved
(`NoVersionAhead`, the property's condition; lemma `CapacityIsInForce`).

### 2.6 Goals

Each command is one write transaction and one action. `seen[c]` is the goal a
client has read last with what it has read; a command of the client is accepted
when the revision it saw is the row's (`Current`). A row keeps status, kind, the
number of the profile, the current plan, whether `paused_at` is set, how it was
closed, and `pre_closure_status` from the snapshot taken at the closure.

| Code | Action |
|---|---|
| `create_goal`, `get_goal` with `get_profile_draft` | `CreateGoal`, `ReadGoal` |
| `update_profile_draft`, `confirm_profile`, `select_route` | `EditDraft`, `ConfirmProfile`, `SelectRoute` |
| `activate_plan` | `ActivatePlan` |
| `pause_goal`, `resume_goal`, `close_goal`, `undo_closure` | `PauseGoal`, `ResumeGoal`, `CloseGoal`, `UndoClosure` |
| 24 hours after a closure | `WindowPasses` |
| `derive_goal` | `DeriveGoal` |
| the planner writes a plan version (not in the repository yet) | `DraftPlan` (external) |

The database takes part: `Checked` is the CHECK that a completed goal is an
achievement, and `FlushSucceeds` the partial unique index on active plan
versions, which is looked at row by row. Plan versions are numbers so that they
have the order of their primary keys, which the flush follows.

A profile is reduced to the kind of goal its time boundary implies. Left out:
titles, domains, notes, the planning session (nothing reads it to decide),
`planning_revision` of `activate_plan` (a parameter the code does not look at),
and the budget that `resume_goal` compares: it is read in a transaction before,
so that it may refuse or not whatever the state at the resumption is.

### 2.7 Links

An edge names its two tasks and its link. Dependencies inside a plan, which would
have no link, are written by no code of the repository. `ProposeLink` checks its
edges and does not keep them; `ConfirmLink` gets edges once more and stores them,
provided that each successor is in some plan version (`planned`).
`accept_change_proposal` is two actions: `CheckProposal`, which marks an outdated
proposal and lets every other request go on, and `ApplyProposal` or `AcceptFails`.
`accepting` holds the proposals some request has found up to date; as any number
of requests may have, one that ends may or may not take the proposal out of it.
`CycleExists` says what the depth-first search of `_cycle_exists` finds: a set of
tasks of which each leads to another one of the set.

| Code | Action |
|---|---|
| `propose_goal_link`, `confirm_goal_link` | `ProposeLink`, `ConfirmLink` |
| `propose_unlink` | `ProposeUnlink` |
| `accept_change_proposal` | `CheckProposal`, `ApplyProposal`, `AcceptFails` |
| `reject_change_proposal` | `RejectProposal` |
| `_bump_planning_revision` elsewhere | `OtherCommand` |

Left out: the outcome an edge requires, the titles, milestones and states of
tasks in the analysis of the impact, and cancelling tasks whose criteria cannot be
met any more, a list the code always leaves empty.

### 2.8 ModelConfigs

A row keeps its revision, what a call to the provider depends on (`content`: the
endpoint settings and the credential), whether it is enabled, the default,
archived, and the revision whose capabilities it holds (`measured`, a history of
`capabilities_json`; the column itself names none). The revision counts every
change made by `update_model_config` and nothing else: neither choosing the
default, nor a test, nor archiving moves it.

| Code | Action |
|---|---|
| `create_model_config`, `update_model_config` | `CreateConfig`, `UpdateConfig` |
| `set_default_model_config`, `delete_model_config` | `SetDefault`, `DeleteConfig` |
| `test_model_config` | `StartTest` (its read), `FinishTest` (its write) |
| `get_default_for_job` | `BindJob` |
| `build_model_for_job` | `BuildModel`, or `FindStale` for INPUT_STALE |

Left out: encryption, the check of addresses before each call, the requests of the
probes, and the idempotency keys of three commands (`Idempotency`).

### 2.9 Auth

A request is a value of `request`: the operation, how far it got, and what it has
read. Reads, the reading of the clock after the hash was computed, and the write
transaction are separate actions; `MayWrite` is what each write transaction
confirms again, `Refuse` the rollback when it cannot. Routes that need a session
begin with `Authenticate`, which keeps the identity it found: the session may be
revoked before the route acts. A request that fails in its first read changes
nothing and is left out, and so is a wrong password.

A hash is the password and the request that computed it (`hashed`), as every hash
has a salt of its own and the code compares hashes, not passwords. `changed` is the
request that last set the password (`changed_at`); a login that renews a hash of
outdated parameters (`Rehashed`) leaves it alone. A session is `under` the change
of the password that its owner had proved to know. Requests are numbered in the
order of their first steps, which loses no behaviour and saves their permutations.

| Code | Actions |
|---|---|
| `authenticate` | `Authenticate`, `WriteLastSeen`, then `Visited` for a route of no concern here |
| `register`, `login` | `ReadForRegister`, `ReadForLogin`, `ReadClock`, `Register`, `Login` |
| `change_password` | `Authenticate`, `ReadForChange`, `ReadClock`, `ChangePassword` |
| `reset_password_with_token` | `ReadForReset`, `ReadClock`, `ResetPassword` |
| `logout`, `logout_all` | `Logout`, `LogoutAll` |
| the deployer's `issue_password_reset_token`, `disable_user` | `BeginIssue`, `IssueResetToken`, `DisableUser` |

Left out: `promote_to_admin`, which touches what nothing else reads, account names
and time zones, and the check of the request's origin.

### 2.10 RateLimit

A thread reads the clock (`Arrive`) and later has the lock (`Hit`), so readings may
arrive out of order; `MaxLockWait` bounds by how much. `Pruned` drops old windows
of every slot when the table is long. `opened`, `granted` and `early` record what
was granted, since a window that is dropped leaves no trace in the table.

### 2.11 AgendaEngine

`calculate_agenda` is a pure function; here it is the loop it is in the code, with
one action per task looked at, so that TLC walks through it for every snapshot of
`Snapshots`. `Overflow` is the early return when mandatory tasks exceed the day;
`PlaceMandatory` and `MandatoryDone` are the first loop with its break,
`PlaceFlexible` and `Defer` the second with its four branches, `Report` the three
kinds of conflicts. The nine sort keys are kept in full (`SortKey`). Dates are days
from today; the gap of a goal stands for its two weekly amounts.

Left out: texts, `minutes_gap`, the proposals (one for each DEADLINE_RISK), and
tasks that are neither pending nor in progress, which `build_snapshot` filters out.

## 3. Runs

| Run | Configuration | What it shows |
|---|---|---|
| `jobs_workers` | 1 job, 2 workers, 3 attempts, 1 stage, 2 messages | status, log, result and revision stay consistent whatever the workers do |
| `jobs_submission` | 2 attempts, no message lost, and one of: 2 jobs with one key, a row, a message and a dispatcher at a time; 1 job, 2 dispatchers, 2 rows | one holder per key; the contract, with the second job waiting for the first; no interleaving of dispatchers silences a queued job |
| `jobs_liveness` | 1 job, 2 workers, 2 attempts, fairness; or 5 events in batches of 2, fairness | every accepted job ends; the stream loses and repeats nothing, ends complete, and the browser gets everything |
| `scheduling` | one of: 1 day, 2 revisions, 2 workers, 2 submissions each, 1 change to goals; 2 clients, 2 dates, 3 versions, 3 tasks (1 in progress); 3 tasks of 12 kinds, 2 goals, 10368 snapshots | an agenda is of the revision it names, revisions get one each, in order, and no agenda is replaced by one that knows less; no lost update, no constraint overfills a day while no quota of a later date is saved; an agenda fits its day, keeps to urgency and, when the mandatory tasks fit, accounts for every task |
| `commands` | one of: 4 sends of one key, 2 operations, 2 details, 8 instants; 2 goals, 2 plans with a common task, 2 clients; 3 goals, 4 links, 3 tasks, 2 proposals; 2 configurations, 3 revisions, a test, a job; 1 account, 2 passwords, 3 requests, 3 instants; 2 slots, 2 threads, 8 instants | one execution per period, replays and refusals; goals, plans and tasks agree and no command is applied to a row its client has not seen; links, edges and proposals agree, dependencies have no cycle; a job runs what it bound; sessions follow the password, which is the last one set, and a token resets once; limits hold |
| `planning_quiet` (violation) | 1 day, 1 worker, 1 change to goals | section 5 |
| `planning_regenerate` (violation) | 1 day, 2 revisions, fairness | section 5 |
| `availability_next` (violation) | 2 dates, 3 versions | section 5 |
| `engine_zero` (violation) | 3 tasks of 2 kinds | section 5 |
| `idempotency_replay` (violation) | 4 sends of one key and operation, 2 details | section 5 |
| `goals_activation` (violation) | 2 goals, 2 plans | section 5 |
| `models_capabilities` (violation) | 1 configuration, 1 test | section 5 |

Every property of a passing run has a mutant (operators `X_Y` beside `X`): a
plausible mistake in the code that the run detects. No action uses them.

*Bounds.* `MaxAttempts` is the code's own constant (3 in `jobs_workers`; 2 or 1
elsewhere, enough for "another attempt is left" and "none is left"). Two workers
are enough for a late worker beside its successor; a third would be a second late
worker, whose writes fail on the same condition. One stage per attempt is enough
to be in the wrong place of a log. Two messages make a duplicate, two dispatchers
and two rows make a late mark next to a new row. Two jobs are enough for what
jobs share: keys and the scan's transaction. Lost messages are for `jobs_liveness`, as
`QueuedIsAnnounced` is what has to hold without them; in the part with two jobs the
worker may die during an attempt. In `commands` the clock
covers two retention periods of three instants with a wait of one, so a record
can expire, be replaced and expire again while a send of the first period is
still waiting. `JobStream`'s log is longer than two batches and its last batch can
be full. Two jobs that one scan moves together are in no run, only in
the proof of `Refinement`. In `scheduling` two revisions and two workers
let the older job commit last, and two submissions per revision let one
end without a result and be replaced. For the availability two dates put a
version before or after another, three versions leave room for a third after a
conflict, and two revisions of a row are enough for a client to be out of date.
The second date has no forms of its own (`Forms`), as days share only the versions.
In `commands` the goal has five commands in its life, enough to confirm, activate,
pause, close and undo, or to activate a second plan and close; the other goal is
there to be derived. Of its two plans one comes with a batch. The three goals of
the links have one task each, so the three links can close a cycle; one pair can
be linked again after its removal; two proposals compete for a link while the
planning revision advances three times.
Two configurations are enough for one to cease to be the default, three revisions
for a job to be bound to the second and see it change; a job makes any number of
attempts. Three requests are a login, password change or reset racing with two
others on the one account, which is what accounts do not share; two passwords
tell an old one from a new one; three instants let a session become idle or
expire, and a token expire, before the write it was read for. Of the limiter's two
slots one has the longest window and one a limit of two; a table of two entries
is already too long, so either slot can cause the other's window to be dropped;
eight instants hold two windows of either. Twelve kinds of tasks are one for each
way through the classification and each way to share in the day, on a day of two
or three minutes: tasks that fit exactly, barely not, or in part.
The proofs of section 4 need none of these bounds.

`CHECK_DEADLOCK FALSE` everywhere: the system stops when all jobs are done, all
sends are answered, or the log is complete.

*Fairness* (`Jobs!FairSpec`). Beat runs `recover` and `dispatch_outbox` for ever
(`celery_app.py:66-78`), clocks advance, and a worker that has begun an attempt
goes on and its handler returns or raises: weak fairness. Publishing, marking,
receiving and claiming may each fail any number of times, but when they are tried
again for ever they succeed in the end: strong fairness. Nothing is assumed of
heartbeats, cancellation, losses or deaths. A handler that never returns but
whose heartbeat goes on would keep its job open for ever; the code has no limit
against that, and the fairness of `HandlerReturns` names the assumption.
In `Planning!FairSpec` the client asks for its agenda until it is there (weak), a
worker whose attempt has begun goes on (weak), and for each job the steps of its
attempts succeed in the end if they are tried for ever (strong), although any of
them may die. With this fairness the counterexample of `planning_regenerate` is
the code's doing: when `SnapshotRaises` is FALSE the same run finds no error.
In `JobStream` the server polls and the browser reconnects (weak), and
connections may break for ever but not every time before an event was read and
delivered (strong).

## 4. Proofs

Every safety property that a passing run checks is proved here for all values of
the constants; at the end of the section is what is only model-checked.

### 4.1 Jobs and the event stream

`JobsProofs` proves, for any sets of jobs, keys, workers, dispatchers and slots
and any bounds, under the named assumptions of `Jobs` (`MaxAttempts` positive,
bounds natural, `NoJob` not a job, every job with a key):

| Theorem | Property |
|---|---|
| `TypeCorrect` | `TypeOK` |
| `ResultCorrect` | `ResultIsOfLatestAttempt` |
| `TerminalStays` | `TerminalIsFinal` |
| `CancelHonoured` | `CancelIsHonoured` |
| `RevisionCorrect` | `RevisionTracksState` |
| `DedupeCorrect` | `OneHolderPerKey` |
| `LogSerial` | `LogIsSerial` |
| `LogCorrect` | `LogReportsStatus` |
| `Refinement` | `KeepsContract` |
| `LogsAreFeeds` | `EveryLogIsAFeed` |
| `QueuedStaysAnnounced` | `QueuedIsAnnounced`, under `LosslessSpec` |

The invariant behind them (`Inv`, theorem `Invariance`) says of each row that it
has a lease exactly while it runs, and then that of its latest attempt; that a
job with attempts left to it has not used them all; that results exist exactly for
a succeeded job; and of each worker that its token is no newer than the latest
attempt of its job. The last part is what makes "the lease is mine" mean "I am
the latest attempt", and none of the properties is inductive without it.

The actions are first sorted, each by a lemma, into the few things that can happen
to one row and its log (`JobStep`: it is kept, waits, starts, reports a stage,
returns with a result, leaves its attempt, is accepted, asked to stop,
cancelled). Each property is then proved against these steps and not against
every action.

`QueuedIsAnnounced` is not inductive: two dispatchers may both have published rows
of one job, and each would be justified by the row the other is about to remove.
Its invariant (`QueuedIsOnItsWay`) lets a row count only while no dispatcher has it
published; from then on the message it was published for does, or the worker that
received it. That a new row takes a slot no dispatcher holds (`FreeSlots`) is
what keeps a late mark off it. `LosslessSpec` leaves out the losses: what a loss
silences, the recovery scan announces again (`KeepsFairContract`).

For any batch size and any feed, `StreamCorrect` proves `StreamLosesNothing`. Its
invariant (`StreamInv`) rests on one idea: while a connection is up, the server's
cursor is the number of events that were received or are on the wire
(`CursorIsNext`), so what is sent next is what is missing. To that `BatchOK` adds that
a batch that was not full and was read after the end of the job reached the end of the
feed, which is the reason the code may close the stream there; reading status
and events in one transaction is what makes it true.

`WatchedCorrectly` puts the two together: in `WatchSpec(j)` the stream's feed is the log
of job `j`, and any step of `Jobs` may come between two steps of the stream. The
proof needs only that a step of `Jobs` is a step of the feed or leaves it alone
(`JobStepWrites`, from which `LogsAreFeeds` follows too) and `StreamInv`. A stream that
was ended is then the whole log of a job that is over (`EndsWithTheLog`).

`LiveImplementsParts`: in `MCLiveness` each of the two modules behaves as it does alone.

### 4.2 Scheduling

`PlanningProofs` proves, for any days, weeks, workers and bounds, under the
assumptions of `Planning`:

| Theorem | Property |
|---|---|
| `PlanningTypes` | `TypeOK` (a part of `SchedulingTypeOK`) |
| `AgendaOfRevision` | `AgendaIsOfItsRevision` |
| `VersionOrder` | `VersionsFollowRevisions` |
| `AgendasKnowMore` | `LaterAgendasKnowMore` |

Its invariant says that an attempt read the revision no later than the data and
the data no later than now (`saw <= readAt <= revision`), and that it computed only
if what it saw is its job's input. At a commit the input is the present revision,
so the three are equal, which is why two separate reads do no harm. That a
revision gets one agenda needs `OneHolder`: the job that commits is open, so no
other job with its key has succeeded, so no agenda of the revision exists. For
`AgendasKnowMore` a second invariant, proved on top of the first, orders all
readings in progress or done: what was read at a later revision includes what
was read at an earlier one.

`SchedulingProofs` proves, for any clients, dates, quotas and finite set of tasks,
and for any snapshot of finitely many tasks, under the named assumptions of
`Availability` and `AgendaEngine`:

| Theorem | Property |
|---|---|
| `SavesOverwriteNothing` | `NoLostUpdate` |
| `ConstraintsNeverOverfill` | `ConstraintsFit` |
| `AgendaFits` | `AgendaFitsTheDay` |
| `AccountedForIfAllFits` | `NothingIsLostIfAllFits` |
| `UrgencyDecides` | `UrgentComeFirst` |
| `SchedulingTypeCorrect` | `SchedulingTypeOK` |
| `SchedulingImplementsParts` | `SchedulingSpec => Spec /\ AvailSpec /\ EngineSpec` |

The invariant of `Availability` (`AvailInv`) says of a form that is open: as long as
nobody has saved its row it has the present revision, and once somebody has it is
overtaken. Overtaken means behind for an override or a constraint. For the weekly
quota it means that the next number is taken (`FormFits`), since the version that
is compared may be older than the last one saved: there it is the uniqueness of the
number that refuses the save, not the comparison. `NumbersFit` (no number is
above the count of versions) keeps the numbers in their type.
`ConstraintsFit` needs nothing of it but the types: if the minutes of a day grow, the
step set one constraint of that day and the check has counted all of them, against a
capacity that is the one in force when no version is ahead (`CapacityIsInForce`).

The invariant of the engine (`EngineInv`) speaks of `Got`, the minutes each task has
in the agenda, which the model adds up from the items:

* `Before`: nothing is placed at the start, nor when the mandatory tasks exceed
  the day; then all of them conflict and all flexible ones are deferred.
* `Items`: a task has one item, flexible items come after mandatory ones, and what is
  left and the sum of `Got` are the capacity of the day.
* `WithMandatory`: in the first loop there is room for all that is still to do, so
  every task gets the minutes it wants.
* `WithFlexible`: in the second loop every flexible task looked at has its minutes or is
  `Waiting`; none that is still to do is more urgent than one looked at; and a
  waiting task does not fit into what the mandatory and the no less urgent tasks
  leave it (`Unfit`).
* `Reported`: at the end the deadlines reported are those of overdue and late tasks.

That a waiting task stays unfit is where the order of the loop matters: a later item
is of a task at least as far down the order, so it is no more urgent; and if it counts as
equally urgent it takes room away, and what did not fit fits even less (`UnfitInLess`). `SumTheorems` has the arithmetic of this: adding a
task to a sum, leaving one out, comparing sums.
It also has the induction over finite sets that sums need. The library's
induction theorems take an operator as a parameter and cannot be instantiated
here; `FiniteInduction` states the induction for a set of subsets instead, and follows
from the fact that a non-empty set of numbers has a least element.

TLC checked `EngineInv` on the instance of `Scheduling.cfg` and on one with tasks of
0 minutes before it was proved. `AvailabilityAssumption` and `EngineIds` assume finitely
many tasks, as sums do and a table has.

### 4.3 Commands

`LinksProofs` proves, for any tasks, goals, links, proposals and bounds, under
`LinksAssumption` (finitely many tasks, a pair of goals for each link):

| Theorem | Property |
|---|---|
| `LinksTypes` | `LinksTypeOK` (a part of `CommandsTypeOK`) |
| `EdgesBelong` | `EdgesGoWithLinks` |
| `ProposalsShow` | `ProposalShowsWhatItRemoves` |
| `RemovedOnce` | `RemovedByOneProposal` |
| `OneLink` | `OneLinkPerPair` (checked by no run) |
| `NoCycles` | `DependenciesAreAcyclic` |

Its invariant (`LinksInv`) adds to these that every proposal that was made names a
link and is not ahead of the planning revision. That is what makes advancing the
revision put every pending proposal out of use (`StepShown`): a change of links or
edges that would concern a proposal always comes with a new revision, but for
`ProposeLink`, which concerns no active link. Why one proposal removes a link
needs no revision: the second transaction finds the link active, so no proposal
for it has been applied. Acyclicity needs no part of the invariant, as
`ConfirmLink` checks its own edges against those there are.

`AuthProofs` proves, for any accounts, passwords and requests (under
`AuthAssumption`: requests are positive numbers, the two absent values are none of
the others):

| Theorem | Property |
|---|---|
| `SessionsCorrect` | `SessionsFollowThePassword` |
| `PasswordCorrect` | `PasswordIsTheLastOneSet` |
| `ResetOnce` | `TokenResetsOnce` |

The heart of its invariant (`AuthInv`) is `ReadsFit`: as long as the hash a request
has verified is the one in force, the change it belongs to and the password are
those in force too. It is inductive because a hash is never computed twice
(`PastOnly`: every hash in the table or in somebody's hands is of a request that is
over), which is what the random salt is good for. So comparing hashes in the write
transaction is enough. `TokensFit` says that a token is of a request that is over,
so issuing one never overwrites one that was used. The steps are first sorted
(`StepKinds`) into waiting, reading, the five writes and `DisableUser`.

`GoalsProofs` proves, for any goals, plans, tasks and clients:

| Theorem | Property |
|---|---|
| `PlanCorrect` | `ActivePlanIsCurrent` |
| `TasksCorrect` | `TasksFollowPlans` |
| `RevisionCorrect` | `RevisionNamesTheRow` |
| `ClosureCorrect` | `ClosureFitsStatus` |

Its invariant (`GoalInv`) adds that no client is ahead of a row it has read, that a
goal before its first activation is not paused, and that the pause a closed goal
has recorded is the one its snapshot (`was`) has: undoing a closure needs that to
find the columns right.

`CommandsProofs` proves `JobModelCorrect` (`JobRunsWhatItBound`). The invariant
compares a job's reference with its row: the row is at the same revision or a later
one, and has the content that was bound while it is at the same one and is not
archived. Archiving takes the credential away without a new revision; that
`build_model_for_job` looks for an archived row first is what the proof needs there.

It proves `LimitCorrect` (`LimitHolds`), under the assumption that
`_LONGEST_WINDOW` is at least as long as every rule's window. The invariant says
that an entry counts exactly what was granted since it was opened, and that a slot
without an entry has nothing left that counts.

It proves of the idempotency store, for any keys, sends and times with
`MaxWait < Retention`:

| Theorem | Property |
|---|---|
| `FarApart` | `ExecutionsAreFarApart` |
| `RecordsCorrect` | `RecordsMatchEffects` |
| `ReplayCorrect` | `ReplayIsOfSameOperation` |

The invariant has a replay by the hash that the store compares; equal hashes are of
one operation, and of one detail where the caller puts it in.

`CommandsImplementParts` says that each of the six modules behaves in `MCCommands` as
it does alone, so that all these results hold of the composition;
`CommandsTypeCorrect` is `CommandsTypeOK`, the type invariants of the six at once.

### 4.4 Only model-checked

* `KeepsFairContract` and `BrowserCatchesUp`: liveness under fairness is out of the
  prover's reach. Their safety parts, `KeepsContract` and `StreamLosesNothing`, are
  proved.
* The seven properties the violation runs refute (section 5): the counterexamples are
  TLC's.

## 5. Where code and documents disagree

* `planning_quiet`. `docs/development/17-goal-lifecycle-design.md:18` and others
  say that every command on a goal advances the planning revision and so triggers
  recomputation. None does. An agenda computed before a goal is paused counts as
  current afterwards, and `ensure_agenda` finds the key of day and revision held
  by the job that succeeded, so asking again changes nothing.
* `planning_regenerate`. `build_snapshot` (`scheduling/service.py:259`) asks an
  `AgendaRevision` for `local_date`, which it does not have. The line runs for each
  item of a current agenda of the week, so a day's second agenda, or one for a
  later day of the week, is never computed: its job fails, without a retry.
* `availability_next`. `update_availability` numbers the next version after the
  one with the last effective date. Once a version with an earlier date has been
  saved, that number is taken and no further version can be saved.
* `goals_activation`. `_do_activate_plan` supersedes the active version and activates
  the new one in one flush (`goals/lifecycle.py:234-239`). SQLAlchemy writes the
  rows of one table in the order of their primary keys, and SQLite looks at the
  unique index `uq_plan_versions_active_per_goal` after each. The keys are random
  UUIDs, so for about half of all pairs the new row comes first and the
  transaction fails with an IntegrityError; the old version does not make way, as
  the comment at line 233 says it does. `tests/goals/test_activation.py:122` passes
  because its fixture makes keys that ascend. `Goals` keeps what the code does, and
  so every other property is checked of activations that succeed.

* `idempotency_replay`. `docs/worklog/T07-job-execution.md:114` says the request hash
  covers operation, path parameters and body, and `docs/development/03-data-model.md:103`
  and `api/dependencies.py:74` that the same key with other content is a conflict. Only
  `cancel_job` passes path and body; the commands of goals (`goals/lifecycle.py:149`,
  `goals/service.py:307`, 430, 555), links (`links/service.py:104`), model configurations
  (`model_configs/service.py:231`, 354, 390) and `ensure_agenda`
  (`scheduling/service.py:931`) pass their operation only. A key that was used to pause
  one goal answers the request to pause another with the first result, and the other
  goal is not paused. What does hold of every caller is `ReplayIsOfSameOperation`.
* `engine_zero`. `calculate_agenda` gives an unsplittable task of 0 minutes an item
  of 0 minutes (`scheduling/engine.py:333` and 356), and a splittable one too whose
  least session is 0. Both amounts are legal in the tables and the API. The docstring
  and a CHECK of `agenda_items` (`scheduling/models.py:232-240`) exclude such items,
  so `persist_agenda` fails on that day.
* `models_capabilities`. The comment on `capabilities_json`
  (`model_configs/models.py:80-81`) says that `revision` holds the version that was
  tested. A test writes its result on the row whatever its revision is by then, and
  an update advances the revision and leaves the capabilities of the old endpoint.

Read off the code while modelling, without a run of their own:

* `docs/worklog/T07-job-execution.md:131` says the recovery scan writes a new outbox
  row for a queued job that *has no row waiting to be sent*. `recover`
  (`jobs/service.py:340`) asks whether a row was created within the last five
  minutes, so during a longer outage of the broker a job collects a pending row
  every five minutes. Harmless for the job, as its claim is conditional.
* `docs/development/03-data-model.md:64` says the quota version is chosen by its
  effective date, and so does the docstring at `scheduling/models.py:63`;
  `_latest_availability` takes the one with the last date, also while that date is still
  to come. So a constraint that fits the version to come is accepted on a day whose
  version in force has no room for it: `ConstraintsFit` is false without its condition
  `NoVersionAhead`.
* `docs/development/17-goal-lifecycle-design.md:42` takes the demand of a
  paused goal out of the budget, and line 60 has `undo_closure` check the budget
  again. `resolve_shared_budget` (`scheduling/service.py:844-880`) counts the pending
  tasks of all goals, paused and stopped ones too, and `_do_undo_closure` asks nothing.
* `confirm_profile` compares the revision of the goal and not that of the draft, so
  it may confirm edits its client has not seen: `RevisionNamesTheRow` holds for each
  row on its own. On a completed goal whose draft has an ongoing time boundary it
  fails at the CHECK of the table, as an internal error (`Checked`).
* `docs/development/03-data-model.md:55` wants the tasks that a revision replaces before
  they were started cancelled, with the reason. `_do_activate_plan` leaves the
  pending tasks of the superseded plan as they are. `TasksFollowPlans` claims nothing of
  a task that only a superseded plan has.
  Line 57 wants the whole dependency graph checked at the activation; the code
  does not look at dependencies there.
* `api/routes/goal_links.py:84` and the message at `links/service.py:354` ask for the
  dependencies that were proposed. They are not stored, and any others are accepted.
* A login whose hash has outdated parameters and that races with another login of
  the same account is refused with INVALID_CREDENTIALS although the password is
  right: the first one has replaced the hash that is compared (`Unchanged`).
  `reset_password_with_token` does not look at the status of the user again in its
  write, and overlapping requests can move `last_seen_at` backwards.
* A model configuration that is the default and is disabled stays the default, and
  `get_default_for_job` answers MODEL_UNAVAILABLE.
* A splittable task whose remaining minutes are fewer than its least session is
  deferred every day until its last (`scheduling/engine.py:347`). When the mandatory
  tasks exceed the day, neither overdue nor blocked tasks are reported
  (`scheduling/engine.py:285-299`), although the comment at line 260 and
  `docs/development/13-scheduling-engine.md`, section 3, send overdue tasks to the
  conflicts or proposals: `NothingIsLostIfAllFits` asks nothing of them in that case.
  Tasks due today or fixed by the user are placed whether or not their dependencies
  are satisfied.

## 6. Not modelled, and the plan

| Next | Module | Question | Bounds |
|---|---|---|---|
| 1 | `Goals` | `update_draft_task`: the specifications of tasks shared by draft plans, once the repository has the code that drafts plans | 2 tasks |
| 2 | `Planning` with `AgendaEngine` | days missed by an agenda that `persist_agenda` refuses | 1 day |

Theorem to prove next: that `Planning` keeps its invariants when its jobs move as `Jobs`
allows and not only as `JobContract` does.

Not to be modelled: encryption, password hashing, outbound HTTP checks, the
configuration and logging modules, schema migrations and the frontend (pure
conversions, I/O or user interface); conversations and agent (tables without
behaviour).
