-------------------------------- MODULE Jobs --------------------------------
(***************************************************************************)
(* Background jobs of GoalFlow (goalflow/jobs): submission with            *)
(* deduplication, the transactional outbox, the broker, the workers with   *)
(* their leases and heartbeats, cancellation and the recovery scan.        *)
(*                                                                         *)
(* Every write transaction of the code is BEGIN IMMEDIATE and therefore    *)
(* serial, so it is one action here; whatever the code does between two    *)
(* transactions is a phase of the process that does it.                    *)
(*                                                                         *)
(* Time is abstracted to the only question the code asks of it: has the    *)
(* deadline passed?  A job waits for one deadline at a time (running: its  *)
(* lease; retry_wait: its backoff; queued: five minutes since its last     *)
(* outbox row was written), so one flag "due" per job is enough.           *)
(***************************************************************************)
EXTENDS Naturals, Sequences

CONSTANTS
  Jobs,         \* job ids that may be submitted
  Keys,         \* dedupe keys, standing for (owner, kind, dedupe_key)
  DedupeKey,    \* the key each job is submitted with
  Workers,      \* worker processes, each running one attempt at a time
  Dispatchers,  \* concurrent calls of dispatch_outbox (the API's and Beat's)
  Slots,        \* bound: pending outbox rows of one job
  MaxAttempts,  \* MAX_ATTEMPTS of the code
  MaxStages,    \* bound: stages a handler reports in one attempt
  MaxMessages,  \* bound: messages for one job waiting in the broker
  NoJob         \* what an idle worker works on

ASSUME BoundsAssumption ==
  /\ MaxAttempts \in Nat \ {0}
  /\ MaxStages \in Nat
  /\ MaxMessages \in Nat \ {0}

ASSUME NamesAssumption ==
  /\ NoJob \notin Jobs
  /\ DedupeKey \in [Jobs -> Keys]

VARIABLES
  job,        \* the rows of table jobs
  log,        \* table job_events: the events of each job in sequence order
  published,  \* history: the attempts whose business result was committed
  outbox,     \* table outbox_events: the pending rows of each job
  broker,     \* messages waiting in the broker for each job
  worker,     \* the attempt each worker process is running
  progress    \* how far each dispatcher is with each row it has read

vars == <<job, log, published, outbox, broker, worker, progress>>
jobVars == <<job, log, published>>

-----------------------------------------------------------------------------
Terminal == {"succeeded", "failed", "cancelled", "stale"}
Holding == {"queued", "running", "retry_wait", "succeeded"}
Statuses == {"queued", "running", "retry_wait"} \cup Terminal

\* The event that reports each status.
StatusEvent ==
  [queued |-> "queued", running |-> "started", retry_wait |-> "retrying",
   succeeded |-> "completed", failed |-> "failed", cancelled |-> "cancelled",
   stale |-> "stale"]

EventTypes ==
  {StatusEvent[s] : s \in Statuses} \cup {"stage_completed", "awaiting_confirmation"}

NoLease == 0

\* A lease token is fresh for every claim, and every claim counts one more
\* attempt, so the number of the attempt stands for its token.
JobRows ==
  [status   : {"none"} \cup Statuses,
   attempts : 0 .. MaxAttempts,
   lease    : 0 .. MaxAttempts,
   cancel   : BOOLEAN,      \* cancel_requested_at is set
   due      : BOOLEAN,      \* the deadline the status waits for has passed
   revision : Nat]

NoRow ==
  [status |-> "none", attempts |-> 0, lease |-> NoLease, cancel |-> FALSE,
   due |-> FALSE, revision |-> 0]

Events == [type : EventTypes, attempt : 0 .. MaxAttempts]

\* Phases of run_job in the order of the code: taken from the broker, inside
\* the handler, handler returned, last checkpoint passed; then the transaction
\* that ends the attempt when it does not commit.
Ending == {"stale", "retry", "fail", "unfinished"}
Running == {"computing", "returned", "committing"} \cup Ending
Attempts ==
  [phase  : {"idle", "received"} \cup Running,
   job    : Jobs \cup {NoJob},
   token  : 0 .. MaxAttempts,
   lost   : BOOLEAN,        \* JobContext.lease_lost
   stages : 0 .. MaxStages]

Idle == [phase |-> "idle", job |-> NoJob, token |-> NoLease, lost |-> FALSE, stages |-> 0]

\* A slot of the outbox: no pending row, a row waiting out its backoff, or a
\* row that is due.  Rows marked sent are never read again and leave the slot.
RowStates == {"none", "backoff", "due"}
Progress == {"none", "read", "published", "failed"}
Rows == Jobs \X Slots

TypeOK ==
  /\ job \in [Jobs -> JobRows]
  /\ log \in [Jobs -> Seq(Events)]
  /\ published \in [Jobs -> SUBSET (1 .. MaxAttempts)]
  /\ outbox \in [Jobs -> [Slots -> RowStates]]
  /\ broker \in [Jobs -> 0 .. MaxMessages]
  /\ worker \in [Workers -> Attempts]
  /\ progress \in [Dispatchers -> [Rows -> Progress]]

Init ==
  /\ job = [j \in Jobs |-> NoRow]
  /\ log = [j \in Jobs |-> << >>]
  /\ published = [j \in Jobs |-> {}]
  /\ outbox = [j \in Jobs |-> [s \in Slots |-> "none"]]
  /\ broker = [j \in Jobs |-> 0]
  /\ worker = [w \in Workers |-> Idle]
  /\ progress = [d \in Dispatchers |-> [r \in Rows |-> "none"]]

-----------------------------------------------------------------------------
\* Definitions named X_Y are mutants of X: plausible mistakes that the runs are
\* shown to detect.  No action uses them.
Move_KeepsRevision(row, to) == [row EXCEPT !.status = to, !.due = FALSE]

\* transition(): every change of status bumps the revision and, because it
\* sets a new deadline, starts a new wait.
Move(row, to) == [row EXCEPT !.status = to, !.revision = @ + 1, !.due = FALSE]

Release(row, to) == [Move(row, to) EXCEPT !.lease = NoLease]

SettledStatus_OneMore(row, retryable) ==
  IF row.cancel THEN "cancelled"
  ELSE IF retryable /\ row.attempts <= MaxAttempts THEN "retry_wait"
  ELSE "failed"

SettledStatus_ForgetsCancel(row, retryable) ==
  IF retryable /\ row.attempts < MaxAttempts THEN "retry_wait" ELSE "failed"

\* settle_attempt(): where an attempt that did not commit leaves the job.
SettledStatus(row, retryable) ==
  IF row.cancel THEN "cancelled"
  ELSE IF retryable /\ row.attempts < MaxAttempts THEN "retry_wait"
  ELSE "failed"

Settled(row, retryable) == Release(row, SettledStatus(row, retryable))

\* append_event() with the event that reports the status of the row.
StatusReport(row) == [type |-> StatusEvent[row.status], attempt |-> row.attempts]

Confirmation(row) == [type |-> "awaiting_confirmation", attempt |-> row.attempts]
StageReport(token) == [type |-> "stage_completed", attempt |-> token]

\* The slots a new outbox row of j may take: a row some dispatcher still has
\* in hand keeps its identity.
FreeSlots(j) ==
  {s \in Slots : /\ outbox[j][s] = "none"
                 /\ \A d \in Dispatchers : progress[d][<<j, s>>] = "none"}

\* _add_outbox(): the new row is due at once.
WithNewRow(j) == [outbox[j] EXCEPT ![CHOOSE s \in FreeSlots(j) : TRUE] = "due"]

-----------------------------------------------------------------------------
KeyIsHeld_ActiveOnly(j) ==
  \E k \in Jobs : DedupeKey[k] = DedupeKey[j] /\ job[k].status \in {"queued", "running"}

\* submit_job() looks for a job that holds the key and returns that one instead.
KeyIsHeld(j) == \E k \in Jobs : DedupeKey[k] = DedupeKey[j] /\ job[k].status \in Holding

Submit(j) ==
  /\ job[j].status = "none"
  /\ ~KeyIsHeld(j)
  /\ FreeSlots(j) # {}
  /\ job' = [job EXCEPT ![j].status = "queued", ![j].revision = 1]
  /\ log' = [log EXCEPT ![j] = Append(@, [type |-> "queued", attempt |-> 0])]
  /\ outbox' = [outbox EXCEPT ![j] = WithNewRow(j)]
  /\ UNCHANGED <<published, broker, worker, progress>>

\* cancel_job() with the revision the client saw; any other one is refused
\* with REVISION_CONFLICT and changes nothing.
Cancel(j, expected) ==
  /\ job[j].status \in {"queued", "retry_wait", "running"}
  /\ ~(job[j].status = "running" /\ job[j].cancel)
  /\ job[j].revision = expected
  /\ \/ /\ job[j].status = "running"
        /\ job' = [job EXCEPT ![j].cancel = TRUE, ![j].revision = @ + 1]
        /\ log' = log
     \/ /\ job[j].status # "running"
        /\ LET row == [Move(job[j], "cancelled") EXCEPT !.cancel = TRUE]
           IN  /\ job' = [job EXCEPT ![j] = row]
               /\ log' = [log EXCEPT ![j] = Append(@, StatusReport(row))]
  /\ UNCHANGED <<published, outbox, broker, worker, progress>>

-----------------------------------------------------------------------------
\* dispatch_outbox(): read the due rows, then publish and mark them one by
\* one, each outside of the transaction of the other.
Busy(d) == \E r \in Rows : progress[d][r] # "none"
InHand(d) == {r \in Rows : progress[d][r] \in {"published", "failed"}}

DispatchRead(d, scope) ==
  /\ ~Busy(d)
  /\ \E r \in scope \X Slots : outbox[r[1]][r[2]] = "due"
  /\ progress' = [progress EXCEPT ![d] =
       [r \in Rows |-> IF r[1] \in scope /\ outbox[r[1]][r[2]] = "due" THEN "read" ELSE "none"]]
  /\ UNCHANGED <<jobVars, outbox, broker, worker>>

WithMessage(j) == [broker EXCEPT ![j] = IF @ < MaxMessages THEN @ + 1 ELSE @]

Publish(d, r) ==
  /\ progress[d][r] = "read"
  /\ InHand(d) = {}
  /\ broker' = WithMessage(r[1])
  /\ progress' = [progress EXCEPT ![d][r] = "published"]
  /\ UNCHANGED <<jobVars, outbox, worker>>

\* publish() raises: the message may have reached the broker all the same.
PublishFails(d, r) ==
  /\ progress[d][r] = "read"
  /\ InHand(d) = {}
  /\ broker' \in {broker, WithMessage(r[1])}
  /\ progress' = [progress EXCEPT ![d][r] = "failed"]
  /\ UNCHANGED <<jobVars, outbox, worker>>

Marked_AlwaysSent(state, outcome) == "none"

\* What the mark makes of a row: sent, or waiting out a backoff; a row that is
\* no longer pending stays as it is.
Marked(state, outcome) ==
  IF state = "none" \/ outcome = "published" THEN "none" ELSE "backoff"

Mark(d, r) ==
  /\ progress[d][r] \in {"published", "failed"}
  /\ outbox' = [outbox EXCEPT ![r[1]][r[2]] = Marked(@, progress[d][r])]
  /\ progress' = [progress EXCEPT ![d][r] = "none"]
  /\ UNCHANGED <<jobVars, broker, worker>>

\* The mark fails on the write lock (OperationalError) and is given up.
MarkFails(d, r) ==
  /\ progress[d][r] \in {"published", "failed"}
  /\ progress' = [progress EXCEPT ![d][r] = "none"]
  /\ UNCHANGED <<jobVars, outbox, broker, worker>>

DispatcherDies(d) ==
  /\ Busy(d)
  /\ progress' = [progress EXCEPT ![d] = [r \in Rows |-> "none"]]
  /\ UNCHANGED <<jobVars, outbox, broker, worker>>

-----------------------------------------------------------------------------
\* The broker may lose what it holds (a Redis restart).
LoseMessages(j) ==
  /\ broker[j] > 0
  /\ broker' = [broker EXCEPT ![j] = 0]
  /\ UNCHANGED <<jobVars, outbox, worker, progress>>

\* Acknowledged on receipt (task_acks_late=False).
Receive(w, j) ==
  /\ worker[w].phase = "idle"
  /\ broker[j] > 0
  /\ broker' = [broker EXCEPT ![j] = @ - 1]
  /\ worker' = [worker EXCEPT ![w] = [Idle EXCEPT !.phase = "received", !.job = j]]
  /\ UNCHANGED <<jobVars, outbox, progress>>

-----------------------------------------------------------------------------
Owns_AnyLease(w) == job[worker[w].job].status = "running"

Owns_LastAttempt(w) == job[worker[w].job].attempts = worker[w].token

\* The condition of every write of an attempt: the job still runs under the
\* attempt's own lease.
Owns(w) ==
  /\ job[worker[w].job].status = "running"
  /\ job[worker[w].job].lease = worker[w].token

Goto(w, phase) == worker' = [worker EXCEPT ![w].phase = phase]
Finish(w) == worker' = [worker EXCEPT ![w] = Idle]
Interrupted(w) == worker' = [worker EXCEPT ![w].phase = "unfinished", ![w].lost = TRUE]

Claimable_NotRunning(j) == job[j].status # "running"

Claimable(j) == job[j].status = "queued"

\* _claim(): queued -> running under a new lease; a message for a job in any
\* other status is dropped.
Claim(w) ==
  LET j   == worker[w].job
      row == [Move(job[j], "running") EXCEPT !.attempts = @ + 1, !.lease = job[j].attempts + 1]
  IN  /\ worker[w].phase = "received"
      /\ \/ /\ Claimable(j)
            /\ job' = [job EXCEPT ![j] = row]
            /\ log' = [log EXCEPT ![j] = Append(@, StatusReport(row))]
            /\ worker' = [worker EXCEPT ![w].phase = "computing", ![w].token = row.lease]
         \/ /\ ~Claimable(j)
            /\ Finish(w)
            /\ UNCHANGED <<job, log>>
      /\ UNCHANGED <<published, outbox, broker, progress>>

\* The heartbeat thread: renews the lease, expired or not, or finds it lost
\* and ends.
Heartbeat(w) ==
  /\ worker[w].phase \in Running
  /\ ~worker[w].lost
  /\ \/ /\ Owns(w)
        /\ job' = [job EXCEPT ![worker[w].job].due = FALSE]
        /\ worker' = worker
     \/ /\ ~Owns(w)
        /\ worker' = [worker EXCEPT ![w].lost = TRUE]
        /\ job' = job
  /\ UNCHANGED <<log, published, outbox, broker, progress>>

\* JobContext.stage_completed(): a request to cancel does not stop it.
StageCompleted(w) ==
  LET j == worker[w].job
  IN  /\ worker[w].phase = "computing"
      /\ worker[w].stages < MaxStages
      /\ \/ /\ Owns(w)
            /\ log' = [log EXCEPT ![j] = Append(@, StageReport(worker[w].token))]
            /\ worker' = [worker EXCEPT ![w].stages = @ + 1]
         \/ /\ ~Owns(w)
            /\ Interrupted(w)
            /\ log' = log
      /\ UNCHANGED <<job, published, outbox, broker, progress>>

\* JobContext.checkpoint(), inside the handler or, last, after it returned.
Checkpoint(w) ==
  /\ worker[w].phase \in {"computing", "returned"}
  /\ \/ /\ worker[w].lost \/ ~Owns(w)
        /\ Interrupted(w)
     \/ /\ ~worker[w].lost /\ Owns(w) /\ job[worker[w].job].cancel
        /\ Goto(w, "unfinished")
     \/ /\ ~worker[w].lost /\ Owns(w) /\ ~job[worker[w].job].cancel
        /\ worker[w].phase = "returned"
        /\ Goto(w, "committing")
  /\ UNCHANGED <<jobVars, outbox, broker, progress>>

HandlerReturns(w) ==
  /\ worker[w].phase = "computing"
  /\ Goto(w, "returned")
  /\ UNCHANGED <<jobVars, outbox, broker, progress>>

\* An exception leaves the handler, the last checkpoint or the commit, whose
\* transaction is then rolled back.  run_job sorts it into stale input, an
\* error worth retrying or one that is not.  The input is read again in the
\* handler and under the lock of the commit, never in the last checkpoint.
Raise(w, ending) ==
  /\ worker[w].phase \in {"computing", "returned", "committing"}
  /\ ending \in {"stale", "retry", "fail"}
  /\ ending = "stale" => \/ worker[w].phase = "computing"
                         \/ worker[w].phase = "committing" /\ Owns(w) /\ ~job[worker[w].job].cancel
  /\ Goto(w, ending)
  /\ UNCHANGED <<jobVars, outbox, broker, progress>>

MayCommit_AnyLease(w) ==
  job[worker[w].job].status = "running" /\ ~job[worker[w].job].cancel

MayCommit_IgnoresCancel(w) == Owns(w)

\* _commit(): status, business result, result refs and events in one
\* transaction, on condition that the attempt still owns the job and nobody
\* asked to cancel it.
MayCommit(w) == Owns(w) /\ ~job[worker[w].job].cancel

Commit(w) ==
  LET j   == worker[w].job
      row == Release(job[j], "succeeded")
  IN  /\ worker[w].phase = "committing"
      /\ \/ /\ MayCommit(w)
            /\ job' = [job EXCEPT ![j] = row]
            /\ published' = [published EXCEPT ![j] = @ \cup {worker[w].token}]
            /\ \/ log' = [log EXCEPT ![j] = Append(@, StatusReport(row))]
               \/ log' = [log EXCEPT ![j] = Append(Append(@, Confirmation(row)), StatusReport(row))]
            /\ Finish(w)
         \/ /\ ~MayCommit(w)
            /\ Goto(w, "unfinished")
            /\ UNCHANGED jobVars
      /\ UNCHANGED <<outbox, broker, progress>>

\* settle_attempt() in a transaction of the worker; without the lease it
\* changes nothing.
SettleAttempt(w, retryable) ==
  LET j   == worker[w].job
      row == Settled(job[j], retryable)
  IN  /\ \/ /\ Owns(w)
            /\ job' = [job EXCEPT ![j] = row]
            /\ log' = [log EXCEPT ![j] = Append(@, StatusReport(row))]
         \/ /\ ~Owns(w)
            /\ UNCHANGED <<job, log>>
      /\ Finish(w)
      /\ UNCHANGED <<published, outbox, broker, progress>>

\* _settle()
Settle(w) ==
  \/ worker[w].phase = "retry" /\ SettleAttempt(w, TRUE)
  \/ worker[w].phase = "fail" /\ SettleAttempt(w, FALSE)

\* _settle_unfinished(): interrupted, or the condition of the commit failed.
SettleUnfinished(w) ==
  /\ worker[w].phase = "unfinished"
  /\ SettleAttempt(w, TRUE)

\* _finish_stale(): a lost lease or a request to cancel wins, and is settled
\* in a second transaction.
FinishStale(w) ==
  LET j   == worker[w].job
      row == Release(job[j], "stale")
  IN  /\ worker[w].phase = "stale"
      /\ \/ /\ MayCommit(w)
            /\ job' = [job EXCEPT ![j] = row]
            /\ log' = [log EXCEPT ![j] = Append(@, StatusReport(row))]
            /\ Finish(w)
         \/ /\ ~MayCommit(w)
            /\ Goto(w, "unfinished")
            /\ UNCHANGED <<job, log>>
      /\ UNCHANGED <<published, outbox, broker, progress>>

\* The process dies, or a write of run_job that nothing catches cannot get the
\* write lock: the attempt ends and the database keeps what it has.
WorkerDies(w) ==
  /\ worker[w].phase # "idle"
  /\ Finish(w)
  /\ UNCHANGED <<jobVars, outbox, broker, progress>>

-----------------------------------------------------------------------------
\* recover(): one transaction over all jobs.  A job it moves waits for a new
\* deadline, so a scan takes each job through one of the three steps at most.
LeaseExpired(j) == job[j].status = "running" /\ job[j].due
RetryDue(j) == job[j].status = "retry_wait" /\ job[j].due /\ FreeSlots(j) # {}

Stuck_Never(j) == FALSE

Stuck(j) == job[j].status = "queued" /\ job[j].due /\ FreeSlots(j) # {}

Recovered(j) ==
  CASE LeaseExpired(j) -> Settled(job[j], TRUE)
    [] RetryDue(j)     -> Move(job[j], "queued")
    [] Stuck(j)        -> [job[j] EXCEPT !.due = FALSE]
    [] OTHER           -> job[j]

Recover ==
  /\ \E j \in Jobs : LeaseExpired(j) \/ RetryDue(j) \/ Stuck(j)
  /\ job' = [j \in Jobs |-> Recovered(j)]
  /\ log' = [j \in Jobs |-> IF LeaseExpired(j) \/ RetryDue(j)
                            THEN Append(log[j], StatusReport(Recovered(j)))
                            ELSE log[j]]
  /\ outbox' = [j \in Jobs |-> IF RetryDue(j) \/ Stuck(j) THEN WithNewRow(j) ELSE outbox[j]]
  /\ UNCHANGED <<published, broker, worker, progress>>

\* Time: the deadline of a job, and the backoff of an outbox row, pass.
DeadlinePasses(j) ==
  /\ job[j].status \in {"queued", "running", "retry_wait"}
  /\ ~job[j].due
  /\ job' = [job EXCEPT ![j].due = TRUE]
  /\ UNCHANGED <<log, published, outbox, broker, worker, progress>>

BackoffPasses(j, s) ==
  /\ outbox[j][s] = "backoff"
  /\ outbox' = [outbox EXCEPT ![j][s] = "due"]
  /\ UNCHANGED <<jobVars, broker, worker, progress>>

-----------------------------------------------------------------------------
Scopes == {Jobs} \cup {{j} : j \in Jobs}

\* One step of a call of dispatch_outbox, for all jobs or for one.
DispatcherStep(d) ==
  \/ \E scope \in Scopes : DispatchRead(d, scope)
  \/ \E r \in Rows : Publish(d, r) \/ PublishFails(d, r) \/ Mark(d, r) \/ MarkFails(d, r)

\* What a worker does of its own accord once it has a message.
WorkerStep(w) ==
  \/ Claim(w)
  \/ HandlerReturns(w)
  \/ Commit(w)
  \/ Settle(w)
  \/ SettleUnfinished(w)
  \/ FinishStale(w)

\* What gets lost without a trace: messages, and what a worker was about to do.
Loss ==
  \/ \E j \in Jobs : LoseMessages(j)
  \/ \E w \in Workers : WorkerDies(w)

LosslessNext ==
  \/ \E j \in Jobs : Submit(j) \/ Cancel(j, job[j].revision)
  \/ \E d \in Dispatchers :
       \/ DispatcherStep(d)
       \/ DispatcherDies(d)
  \/ \E w \in Workers, j \in Jobs : Receive(w, j)
  \/ \E w \in Workers :
       \/ WorkerStep(w)
       \/ Checkpoint(w)
       \/ StageCompleted(w)
       \/ Heartbeat(w)
       \/ \E ending \in {"stale", "retry", "fail"} : Raise(w, ending)
  \/ Recover
  \/ \E j \in Jobs : DeadlinePasses(j)
  \/ \E j \in Jobs, s \in Slots : BackoffPasses(j, s)

Next == LosslessNext \/ Loss

Spec == Init /\ [][Next]_vars
LosslessSpec == Init /\ [][LosslessNext]_vars

-----------------------------------------------------------------------------
\* Fairness.  Beat calls dispatch_outbox and recover again and again, time
\* passes, a worker that has begun an attempt goes on with it and a handler
\* returns or raises.  Losing, failing and dying may happen any number of
\* times but not every time: what is tried for ever succeeds in the end.
Fairness ==
  /\ WF_vars(Recover)
  /\ \A j \in Jobs : /\ WF_vars(DeadlinePasses(j))
                    /\ (\A s \in Slots : WF_vars(BackoffPasses(j, s)))
                    /\ SF_vars(\E d \in Dispatchers, s \in Slots : Publish(d, <<j, s>>))
                    /\ SF_vars(\E d \in Dispatchers, s \in Slots :
                            progress[d][<<j, s>>] = "published" /\ Mark(d, <<j, s>>))
                    /\ SF_vars(\E w \in Workers : Receive(w, j))
                    /\ SF_vars(\E w \in Workers : worker[w].job = j /\ Claim(w))
  /\ \A d \in Dispatchers : WF_vars(DispatchRead(d, Jobs)) /\ WF_vars(DispatcherStep(d))
  /\ \A w \in Workers : /\ WF_vars(WorkerStep(w))
                       /\ WF_vars(worker[w].phase = "returned" /\ Checkpoint(w))

FairSpec == Spec /\ Fairness

-----------------------------------------------------------------------------
\* A business result is committed exactly when the job succeeds, and by its
\* latest attempt only: a worker that returns after its lease was taken away
\* publishes nothing (worker.py, the module's contract; E14).
ResultIsOfLatestAttempt ==
  \A j \in Jobs :
    published[j] = IF job[j].status = "succeeded" THEN {job[j].attempts} ELSE {}

\* The event log ends with the report of the current status, followed by
\* nothing but the stages of a running attempt: a client that only reads
\* events is never misled about the status, and a terminal event is the last.
LogReportsStatus ==
  \A j \in Jobs : job[j].status # "none" =>
    \E i \in 1 .. Len(log[j]) :
      /\ log[j][i] = StatusReport(job[j])
      /\ \A k \in i + 1 .. Len(log[j]) :
           log[j][k].type = "stage_completed" /\ job[j].status = "running"

\* The attempts of a job follow each other in its log: an attempt's events all
\* come after its own "started" and before the next one's, whoever wrote them.
LogIsSerial ==
  \A j \in Jobs : \A i \in 1 .. Len(log[j]) :
    log[j][i].attempt =
      (IF i = 1 THEN 0 ELSE log[j][i - 1].attempt) + (IF log[j][i].type = "started" THEN 1 ELSE 0)

\* At most one job holds a dedupe key, through every retry, cancellation and
\* recovery (uq_jobs_active_dedupe; E10).
OneHolderPerKey ==
  \A j, k \in Jobs :
    j # k /\ DedupeKey[j] = DedupeKey[k] =>
      ~(job[j].status \in Holding /\ job[k].status \in Holding)

\* A finished job never changes again, in any table: not by a late worker, a
\* duplicate message, a second cancellation or the recovery scan.
TerminalIsFinal ==
  [][\A j \in Jobs : job[j].status \in Terminal =>
       job'[j] = job[j] /\ log'[j] = log[j] /\ published'[j] = published[j]]_vars

\* Once cancellation was requested of a running job, it can only go on running
\* or be cancelled: no commit, retry or stale result gets past the request.
CancelIsHonoured ==
  [][\A j \in Jobs : job[j].status = "running" /\ job[j].cancel =>
       job'[j].status \in {"running", "cancelled"}]_vars

\* The revision a client must present to cancel moves exactly when what the
\* client sees moves: not by a renewed lease, a stage or a new outbox row.
RevisionTracksState ==
  [][\A j \in Jobs :
       job'[j].revision = job[j].revision +
         (IF <<job'[j].status, job'[j].cancel>> # <<job[j].status, job[j].cancel>>
          THEN 1 ELSE 0)]_vars

\* A queued job is announced while a pending row, a message or a worker that
\* has taken the message is on its way to claim it.
Announced(j) ==
  \/ \E s \in Slots : outbox[j][s] # "none"
  \/ broker[j] > 0
  \/ \E w \in Workers : worker[w].phase = "received" /\ worker[w].job = j

\* In a run in which nothing is lost (LosslessSpec) a queued job is always
\* announced: no interleaving of dispatchers that read, publish and mark the same
\* rows, fail halfway and die silences it (E16).  What a loss silences is left to
\* the recovery scan, see KeepsFairContract.
QueuedIsAnnounced == \A j \in Jobs : job[j].status = "queued" => Announced(j)

-----------------------------------------------------------------------------
\* The contract of the package, and the feed each job's log is to a reader (the
\* types of its events stand for the events).
Open == {"queued", "running", "retry_wait"}
ContractState == [j \in Jobs |-> IF job[j].status \in Open THEN "open" ELSE job[j].status]

Contract == INSTANCE JobContract WITH
  state  <- ContractState,
  asked  <- [j \in Jobs |-> job[j].cancel],
  result <- [j \in Jobs |-> published[j] # {}]

Feed(j) == INSTANCE JobFeed WITH
  Event    <- EventTypes,
  feed     <- [i \in DOMAIN log[j] |-> log[j][i].type],
  finished <- job[j].status \in Terminal

\* The package keeps its contract: every step of the processes, the scan and
\* time is one step of the contract or none.
KeepsContract == Contract!Spec

\* Under fairness it also keeps the promise that every accepted job ends.
KeepsFairContract == Contract!FairSpec

\* Each job's log is a feed: it grows at the end only, and it is complete once
\* the status is terminal (stream.py relies on both; E19, E30).
\* Written with the quantifier inside, this is \A j \in Jobs : Feed(j)!FeedSpec.
EveryLogIsAFeed ==
  /\ \A j \in Jobs : Feed(j)!FeedInit
  /\ [][\A j \in Jobs : UNCHANGED Feed(j)!feedVars \/ Feed(j)!FeedNext]_vars
=============================================================================
