----------------------------- MODULE JobsProofs -----------------------------
(***************************************************************************)
(* Proofs about Jobs, for any number of jobs, workers, dispatchers,        *)
(* attempts and messages, and about JobStream at the end.  What is proved  *)
(* of Jobs rests on one inductive invariant: a job holds a lease exactly   *)
(* while it runs, and then the lease of its latest attempt; and what a     *)
(* worker holds is a lease given out before.                               *)
(***************************************************************************)
EXTENDS MCLiveness, TLAPS

\* What the columns of a row say of each other.
RowOK(row) ==
  /\ row.status = "none" => row.attempts = 0 /\ row.revision = 0
  /\ row.status \in {"queued", "retry_wait"} => row.attempts < MaxAttempts
  /\ row.status = "running" => row.attempts > 0 /\ row.lease = row.attempts
  /\ row.status # "running" => row.lease = NoLease
  /\ row.cancel => row.status \in {"running", "cancelled"}

RowsOK == \A j \in Jobs : RowOK(job[j])

\* An attempt under way was claimed: its token was a lease of its job once.
AttemptOK(a, rows) ==
  /\ a.phase # "idle" => a.job \in Jobs
  /\ a.phase \in Running => a.token > 0 /\ a.token <= rows[a.job].attempts

AttemptsOK == \A w \in Workers : AttemptOK(worker[w], job)

Inv == TypeOK /\ RowsOK /\ AttemptsOK

-----------------------------------------------------------------------------
\* What transition() does to a row, column by column.
LEMMA MoveRow ==
  ASSUME NEW row \in JobRows, NEW to \in Statuses
  PROVE  /\ Move(row, to) \in JobRows
         /\ Move(row, to).status = to
         /\ Move(row, to).attempts = row.attempts
         /\ Move(row, to).lease = row.lease
         /\ Move(row, to).cancel = row.cancel
         /\ Move(row, to).due = FALSE
         /\ Move(row, to).revision = row.revision + 1
<1>1. row.revision + 1 \in Nat
  BY DEF JobRows
<1>2. to \in {"none"} \cup Statuses
  OBVIOUS
<1> QED
  BY <1>1, <1>2 DEF Move, JobRows

LEMMA ReleaseRow ==
  ASSUME NEW row \in JobRows, NEW to \in Statuses
  PROVE  /\ Release(row, to) \in JobRows
         /\ Release(row, to).status = to
         /\ Release(row, to).attempts = row.attempts
         /\ Release(row, to).lease = NoLease
         /\ Release(row, to).cancel = row.cancel
         /\ Release(row, to).due = FALSE
         /\ Release(row, to).revision = row.revision + 1
<1>1. NoLease \in 0 .. MaxAttempts
  BY BoundsAssumption DEF NoLease
<1> QED
  BY <1>1, MoveRow DEF Release, JobRows

LEMMA SettledRow ==
  ASSUME NEW row \in JobRows, NEW retryable \in BOOLEAN
  PROVE  /\ SettledStatus(row, retryable) \in {"cancelled", "retry_wait", "failed"}
         /\ row.cancel => SettledStatus(row, retryable) = "cancelled"
         /\ ~row.cancel => SettledStatus(row, retryable) \in {"retry_wait", "failed"}
         /\ SettledStatus(row, retryable) = "retry_wait" => row.attempts < MaxAttempts
BY DEF SettledStatus, JobRows

\* An event that reports a row is an event.
LEMMA ReportIsEvent ==
  ASSUME NEW row \in JobRows, row.status # "none"
  PROVE  StatusReport(row) \in Events
BY DEF StatusReport, JobRows, Events, EventTypes, Statuses, Terminal, StatusEvent

-----------------------------------------------------------------------------
(***************************************************************************)
(* What a step does to one job, whoever takes it.                          *)
(***************************************************************************)
Kept(j) == job'[j] = job[j] /\ log'[j] = log[j] /\ published'[j] = published[j]

\* The deadline of the job passes or is moved.
Waits(j) ==
  /\ job[j].status \in Open
  /\ \E due \in BOOLEAN : job'[j] = [job[j] EXCEPT !.due = due]
  /\ log'[j] = log[j] /\ published'[j] = published[j]

ReportsStage(j) ==
  /\ job[j].status = "running"
  /\ job'[j] = job[j] /\ published'[j] = published[j]
  /\ log'[j] = Append(log[j], StageReport(job[j].attempts))

Reported(j) == log'[j] = Append(log[j], StatusReport(job'[j]))

Starts(j) ==
  /\ job[j].status = "queued"
  /\ job'[j] = [Move(job[j], "running") EXCEPT !.attempts = @ + 1, !.lease = job[j].attempts + 1]
  /\ Reported(j) /\ published'[j] = published[j]

Returns(j) ==
  /\ job[j].status = "retry_wait"
  /\ job'[j] = Move(job[j], "queued")
  /\ Reported(j) /\ published'[j] = published[j]

\* A running attempt is over: a request to cancel leaves it one way to end.
Leaves(j, to) ==
  /\ job[j].status = "running"
  /\ to \in {"succeeded", "retry_wait", "failed", "cancelled", "stale"}
  /\ job[j].cancel <=> to = "cancelled"
  /\ to = "retry_wait" => job[j].attempts < MaxAttempts
  /\ job'[j] = Release(job[j], to)
  /\ published'[j] = IF to = "succeeded" THEN published[j] \cup {job[j].attempts} ELSE published[j]
  /\ \/ Reported(j)
     \/ /\ to = "succeeded"
        /\ log'[j] = Append(Append(log[j], Confirmation(job'[j])), StatusReport(job'[j]))

\* The steps of workers, the recovery scan and time.
WorkStep(j) ==
  \/ Kept(j) \/ Waits(j) \/ ReportsStage(j) \/ Starts(j) \/ Returns(j)
  \/ \E to \in Statuses : Leaves(j, to)

\* The steps of the user's requests.
IsAccepted(j) ==
  /\ job[j].status = "none" /\ ~KeyIsHeld(j)
  /\ job'[j] = [job[j] EXCEPT !.status = "queued", !.revision = 1]
  /\ Reported(j) /\ published'[j] = published[j]

IsAskedToStop(j) ==
  /\ job[j].status = "running" /\ ~job[j].cancel
  /\ job'[j] = [job[j] EXCEPT !.cancel = TRUE, !.revision = @ + 1]
  /\ log'[j] = log[j] /\ published'[j] = published[j]

IsCancelled(j) ==
  /\ job[j].status \in {"queued", "retry_wait"}
  /\ job'[j] = [Move(job[j], "cancelled") EXCEPT !.cancel = TRUE]
  /\ Reported(j) /\ published'[j] = published[j]

UserStep(j) == IsAccepted(j) \/ IsAskedToStop(j) \/ IsCancelled(j)

JobStep(j) == WorkStep(j) \/ UserStep(j)

UserNext == \E j \in Jobs : Submit(j) \/ Cancel(j, job[j].revision)

-----------------------------------------------------------------------------
\* A request of the user changes one job and leaves the others alone.
LEMMA UserStepIsOfOneJob ==
  ASSUME Inv, UserNext
  PROVE  \E k \in Jobs : UserStep(k) /\ \A j \in Jobs \ {k} : Kept(j)
<1>1. ASSUME NEW k \in Jobs, Submit(k)
      PROVE  UserStep(k) /\ \A j \in Jobs \ {k} : Kept(j)
  <2>1. job'[k] = [job[k] EXCEPT !.status = "queued", !.revision = 1]
    BY <1>1 DEF Submit, Inv, TypeOK
  <2>2. job[k] \in JobRows /\ job[k].attempts = 0
    BY <1>1 DEF Submit, Inv, TypeOK, RowsOK, RowOK
  <2>3. StatusReport(job'[k]) = [type |-> "queued", attempt |-> 0]
    BY <2>1, <2>2 DEF StatusReport, StatusEvent, JobRows
  <2>4. IsAccepted(k)
    BY <1>1, <2>1, <2>3 DEF Submit, IsAccepted, Reported, Inv, TypeOK
  <2> QED
    BY <1>1, <2>4 DEF Submit, UserStep, Kept, Inv, TypeOK
<1>2. ASSUME NEW k \in Jobs, Cancel(k, job[k].revision)
      PROVE  UserStep(k) /\ \A j \in Jobs \ {k} : Kept(j)
  <2>1. CASE job[k].status = "running"
    BY <1>2, <2>1 DEF Cancel, UserStep, IsAskedToStop, Kept, Inv, TypeOK
  <2>2. CASE job[k].status # "running"
    BY <1>2, <2>2 DEF Cancel, UserStep, IsCancelled, Reported, Kept, Inv, TypeOK
  <2> QED
    BY <2>1, <2>2
<1> QED
  BY <1>1, <1>2 DEF UserNext

\* An attempt that settles leaves its job by a way that the request allows.
LEMMA SettlingLeaves ==
  ASSUME Inv, NEW j \in Jobs, NEW retryable \in BOOLEAN,
         job[j].status = "running",
         job'[j] = Settled(job[j], retryable),
         published'[j] = published[j],
         Reported(j)
  PROVE  WorkStep(j)
<1> DEFINE to == SettledStatus(job[j], retryable)
<1>1. job[j] \in JobRows
  BY DEF Inv, TypeOK
<1>2. /\ to \in {"cancelled", "retry_wait", "failed"}
      /\ job[j].cancel => to = "cancelled"
      /\ ~job[j].cancel => to \in {"retry_wait", "failed"}
      /\ to = "retry_wait" => job[j].attempts < MaxAttempts
  BY <1>1, SettledRow
<1>3. to \in Statuses
  BY <1>2 DEF Statuses, Terminal
<1>4. Leaves(j, to)
  BY <1>2 DEF Leaves, Settled
<1> QED
  BY <1>3, <1>4 DEF WorkStep

\* A worker that owns its job runs the latest attempt of it.
LEMMA OwnerRunsLatest ==
  ASSUME Inv, NEW w \in Workers, worker[w].phase \in Running
  PROVE  /\ worker[w].job \in Jobs
         /\ Owns(w) => /\ job[worker[w].job].status = "running"
                       /\ worker[w].token = job[worker[w].job].attempts
BY DEF Inv, AttemptsOK, AttemptOK, RowsOK, RowOK, Owns, Running, Ending

LEMMA ClaimSteps ==
  ASSUME Inv, NEW w \in Workers, Claim(w), NEW j \in Jobs
  PROVE  WorkStep(j)
<1>1. worker[w].job \in Jobs
  BY DEF Inv, AttemptsOK, AttemptOK, Claim
<1>2. CASE Claimable(worker[w].job) /\ j = worker[w].job
  <2>1. Starts(j)
    BY <1>1, <1>2 DEF Claim, Claimable, Starts, Reported, Inv, TypeOK
  <2> QED
    BY <2>1 DEF WorkStep
<1>3. CASE Claimable(worker[w].job) /\ j # worker[w].job
  BY <1>1, <1>3 DEF Claim, WorkStep, Kept, Inv, TypeOK
<1>4. CASE ~Claimable(worker[w].job)
  BY <1>4 DEF Claim, WorkStep, Kept
<1> QED
  BY <1>2, <1>3, <1>4

LEMMA HeartbeatSteps ==
  ASSUME Inv, NEW w \in Workers, Heartbeat(w), NEW j \in Jobs
  PROVE  WorkStep(j)
<1>1. worker[w].job \in Jobs /\ worker[w].phase \in Running
  BY OwnerRunsLatest DEF Heartbeat
<1>2. CASE Owns(w) /\ j = worker[w].job
  <2>1. Waits(j)
    BY <1>1, <1>2 DEF Heartbeat, Owns, Waits, Open, Inv, TypeOK
  <2> QED
    BY <2>1 DEF WorkStep
<1>3. CASE Owns(w) /\ j # worker[w].job
  BY <1>1, <1>3 DEF Heartbeat, WorkStep, Kept, Inv, TypeOK
<1>4. CASE ~Owns(w)
  BY <1>4 DEF Heartbeat, WorkStep, Kept
<1> QED
  BY <1>2, <1>3, <1>4

LEMMA StageSteps ==
  ASSUME Inv, NEW w \in Workers, StageCompleted(w), NEW j \in Jobs
  PROVE  WorkStep(j)
<1>1. worker[w].phase \in Running
  BY DEF StageCompleted, Running
<1>2. /\ worker[w].job \in Jobs
      /\ Owns(w) => /\ job[worker[w].job].status = "running"
                    /\ worker[w].token = job[worker[w].job].attempts
  BY <1>1, OwnerRunsLatest
<1>3. CASE Owns(w) /\ j = worker[w].job
  <2>1. ReportsStage(j)
    BY <1>2, <1>3 DEF StageCompleted, ReportsStage, Inv, TypeOK
  <2> QED
    BY <2>1 DEF WorkStep
<1>4. CASE Owns(w) /\ j # worker[w].job
  BY <1>2, <1>4 DEF StageCompleted, WorkStep, Kept, Inv, TypeOK
<1>5. CASE ~Owns(w)
  BY <1>5 DEF StageCompleted, WorkStep, Kept
<1> QED
  BY <1>3, <1>4, <1>5

LEMMA CommitSteps ==
  ASSUME Inv, NEW w \in Workers, Commit(w), NEW j \in Jobs
  PROVE  WorkStep(j)
<1>1. worker[w].phase \in Running
  BY DEF Commit, Running
<1>2. /\ worker[w].job \in Jobs
      /\ Owns(w) => /\ job[worker[w].job].status = "running"
                    /\ worker[w].token = job[worker[w].job].attempts
  BY <1>1, OwnerRunsLatest
<1>3. CASE MayCommit(w) /\ j = worker[w].job
  <2>1. /\ job'[j] = Release(job[j], "succeeded")
        /\ published'[j] = published[j] \cup {worker[w].token}
        /\ \/ log'[j] = Append(log[j], StatusReport(job'[j]))
           \/ log'[j] = Append(Append(log[j], Confirmation(job'[j])), StatusReport(job'[j]))
    BY <1>2, <1>3 DEF Commit, Inv, TypeOK
  <2>2. Leaves(j, "succeeded")
    BY <1>2, <1>3, <2>1 DEF MayCommit, Leaves, Reported
  <2> QED
    BY <2>2 DEF WorkStep, Statuses, Terminal
<1>4. CASE MayCommit(w) /\ j # worker[w].job
  BY <1>2, <1>4 DEF Commit, WorkStep, Kept, Inv, TypeOK
<1>5. CASE ~MayCommit(w)
  BY <1>5 DEF Commit, WorkStep, Kept, jobVars
<1> QED
  BY <1>3, <1>4, <1>5

LEMMA SettleSteps ==
  ASSUME Inv, NEW w \in Workers, NEW retryable \in BOOLEAN,
         worker[w].phase \in Running, SettleAttempt(w, retryable), NEW j \in Jobs
  PROVE  WorkStep(j)
<1>1. /\ worker[w].job \in Jobs
      /\ Owns(w) => job[worker[w].job].status = "running"
  BY OwnerRunsLatest
<1>2. CASE Owns(w) /\ j = worker[w].job
  <2>1. job'[j] = Settled(job[j], retryable) /\ published'[j] = published[j] /\ Reported(j)
    BY <1>1, <1>2 DEF SettleAttempt, Reported, Inv, TypeOK
  <2> QED
    BY <1>1, <1>2, <2>1, SettlingLeaves
<1>3. CASE Owns(w) /\ j # worker[w].job
  BY <1>1, <1>3 DEF SettleAttempt, WorkStep, Kept, Inv, TypeOK
<1>4. CASE ~Owns(w)
  BY <1>4 DEF SettleAttempt, WorkStep, Kept
<1> QED
  BY <1>2, <1>3, <1>4

LEMMA FinishStaleSteps ==
  ASSUME Inv, NEW w \in Workers, FinishStale(w), NEW j \in Jobs
  PROVE  WorkStep(j)
<1>1. worker[w].phase \in Running
  BY DEF FinishStale, Running, Ending
<1>2. worker[w].job \in Jobs
  BY <1>1, OwnerRunsLatest
<1>3. CASE MayCommit(w) /\ j = worker[w].job
  <2>1. job'[j] = Release(job[j], "stale") /\ published'[j] = published[j] /\ Reported(j)
    BY <1>2, <1>3 DEF FinishStale, Reported, Inv, TypeOK
  <2>2. Leaves(j, "stale")
    BY <1>3, <2>1 DEF MayCommit, Owns, Leaves
  <2> QED
    BY <2>2 DEF WorkStep, Statuses, Terminal
<1>4. CASE MayCommit(w) /\ j # worker[w].job
  BY <1>2, <1>4 DEF FinishStale, WorkStep, Kept, Inv, TypeOK
<1>5. CASE ~MayCommit(w)
  BY <1>5 DEF FinishStale, WorkStep, Kept
<1> QED
  BY <1>3, <1>4, <1>5

LEMMA RecoverSteps ==
  ASSUME Inv, Recover, NEW j \in Jobs
  PROVE  WorkStep(j)
<1>1. /\ job'[j] = Recovered(j)
      /\ published'[j] = published[j]
      /\ log'[j] = IF LeaseExpired(j) \/ RetryDue(j)
                   THEN Append(log[j], StatusReport(Recovered(j))) ELSE log[j]
  BY DEF Recover, Inv, TypeOK
<1>2. CASE LeaseExpired(j)
  <2>1. job'[j] = Settled(job[j], TRUE) /\ Reported(j)
    BY <1>1, <1>2 DEF Recovered, LeaseExpired, RetryDue, Stuck, Reported
  <2> QED
    BY <1>1, <1>2, <2>1, SettlingLeaves DEF LeaseExpired
<1>3. CASE RetryDue(j)
  <2>1. Returns(j)
    BY <1>1, <1>3 DEF Recovered, LeaseExpired, RetryDue, Stuck, Returns, Reported
  <2> QED
    BY <2>1 DEF WorkStep
<1>4. CASE Stuck(j)
  <2>1. Waits(j)
    BY <1>1, <1>4 DEF Recovered, LeaseExpired, RetryDue, Stuck, Waits, Open
  <2> QED
    BY <2>1 DEF WorkStep
<1>5. CASE ~LeaseExpired(j) /\ ~RetryDue(j) /\ ~Stuck(j)
  BY <1>1, <1>5 DEF Recovered, WorkStep, Kept
<1> QED
  BY <1>2, <1>3, <1>4, <1>5

LEMMA DeadlineSteps ==
  ASSUME Inv, NEW k \in Jobs, DeadlinePasses(k), NEW j \in Jobs
  PROVE  WorkStep(j)
<1>1. CASE j = k
  <2>1. Waits(j)
    BY <1>1 DEF DeadlinePasses, Waits, Open, Inv, TypeOK
  <2> QED
    BY <2>1 DEF WorkStep
<1>2. CASE j # k
  BY <1>2 DEF DeadlinePasses, WorkStep, Kept, Inv, TypeOK
<1> QED
  BY <1>1, <1>2

\* Any other step is a work step of every job, several at once if need be.
LEMMA OtherStepsAreWork ==
  ASSUME Inv, [Next]_vars, ~UserNext, NEW j \in Jobs
  PROVE  WorkStep(j)
<1>1. ASSUME NEW d \in Dispatchers, DispatcherStep(d) \/ DispatcherDies(d)
      PROVE  WorkStep(j)
  <2>1. UNCHANGED jobVars
    BY <1>1 DEF DispatcherStep, DispatchRead, Publish, PublishFails, Mark, MarkFails, DispatcherDies
  <2> QED
    BY <2>1 DEF jobVars, WorkStep, Kept
<1>2. ASSUME NEW w \in Workers, WorkerStep(w)
      PROVE  WorkStep(j)
  <2>1. CASE Claim(w)
    BY <2>1, ClaimSteps
  <2>2. CASE HandlerReturns(w)
    BY <2>2 DEF HandlerReturns, jobVars, WorkStep, Kept
  <2>3. CASE Commit(w)
    BY <2>3, CommitSteps
  <2>4. CASE Settle(w)
    <3>1. worker[w].phase \in Running
      BY <2>4 DEF Settle, Running, Ending
    <3> QED
      BY <2>4, <3>1, SettleSteps DEF Settle
  <2>5. CASE SettleUnfinished(w)
    <3>1. worker[w].phase \in Running
      BY <2>5 DEF SettleUnfinished, Running, Ending
    <3> QED
      BY <2>5, <3>1, SettleSteps DEF SettleUnfinished
  <2>6. CASE FinishStale(w)
    BY <2>6, FinishStaleSteps
  <2> QED
    BY <1>2, <2>1, <2>2, <2>3, <2>4, <2>5, <2>6 DEF WorkerStep
<1>3. ASSUME NEW w \in Workers, NEW stopping \in {"stale", "retry", "fail"},
             Checkpoint(w) \/ Raise(w, stopping) \/ WorkerDies(w)
      PROVE  WorkStep(j)
  BY <1>3 DEF Checkpoint, Raise, WorkerDies, jobVars, WorkStep, Kept
<1>4. ASSUME NEW w \in Workers, StageCompleted(w) \/ Heartbeat(w)
      PROVE  WorkStep(j)
  BY <1>4, StageSteps, HeartbeatSteps
<1>5. ASSUME NEW k \in Jobs, LoseMessages(k) \/ DeadlinePasses(k)
      PROVE  WorkStep(j)
  BY <1>5, DeadlineSteps DEF LoseMessages, jobVars, WorkStep, Kept
<1>6. ASSUME NEW k \in Jobs, NEW w \in Workers, Receive(w, k)
      PROVE  WorkStep(j)
  BY <1>6 DEF Receive, jobVars, WorkStep, Kept
<1>7. ASSUME NEW k \in Jobs, NEW s \in Slots, BackoffPasses(k, s)
      PROVE  WorkStep(j)
  BY <1>7 DEF BackoffPasses, jobVars, WorkStep, Kept
<1>8. CASE Recover
  BY <1>8, RecoverSteps
<1>9. CASE UNCHANGED vars
  BY <1>9 DEF vars, WorkStep, Kept
<1> QED
  BY <1>1, <1>2, <1>3, <1>4, <1>5, <1>6, <1>7, <1>8, <1>9
  DEF Next, LosslessNext, Loss, UserNext

LEMMA EveryStepIsAJobStep ==
  ASSUME Inv, [Next]_vars, NEW j \in Jobs
  PROVE  JobStep(j)
BY UserStepIsOfOneJob, OtherStepsAreWork DEF JobStep, WorkStep

-----------------------------------------------------------------------------
\* A job step leads from a good row to a good row, and attempts are only added.
LEMMA JobStepKeepsRow ==
  ASSUME Inv, NEW j \in Jobs, JobStep(j)
  PROVE  /\ job'[j] \in JobRows
         /\ RowOK(job'[j])
         /\ job'[j].attempts \in Nat
         /\ job'[j].attempts >= job[j].attempts
<1>1. job[j] \in JobRows /\ RowOK(job[j])
  BY DEF Inv, TypeOK, RowsOK
<1>2. /\ job[j].attempts \in 0 .. MaxAttempts /\ job[j].lease \in 0 .. MaxAttempts
      /\ job[j].revision \in Nat /\ MaxAttempts \in Nat
      /\ "queued" \in Statuses /\ "running" \in Statuses /\ "cancelled" \in Statuses
      /\ job[j].cancel \in BOOLEAN
  BY <1>1, BoundsAssumption DEF JobRows, Statuses, Terminal
<1>3. CASE Kept(j) \/ ReportsStage(j)
  BY <1>1, <1>2, <1>3 DEF Kept, ReportsStage
<1>4. CASE Waits(j)
  <2>1. PICK due \in BOOLEAN : job'[j] = [job[j] EXCEPT !.due = due]
    BY <1>4 DEF Waits
  <2>2. job'[j] \in JobRows
    BY <1>1, <2>1 DEF JobRows
  <2> QED
    BY <1>1, <1>2, <2>1, <2>2 DEF RowOK, JobRows
<1>5. CASE Starts(j)
  <2> DEFINE row == Move(job[j], "running")
             n == job[j].attempts + 1
  <2>1. /\ row \in JobRows /\ row.status = "running"
        /\ row.attempts = job[j].attempts /\ row.cancel = job[j].cancel
    BY <1>1, <1>2, MoveRow
  <2>2. n \in 1 .. MaxAttempts /\ n \in 0 .. MaxAttempts
    BY <1>1, <1>2, <1>5 DEF Starts, RowOK
  <2>3. job'[j] = [row EXCEPT !.attempts = n, !.lease = n]
    BY <1>5, <2>1 DEF Starts
  <2> HIDE DEF row, n
  <2>4. job'[j] \in JobRows
    BY <1>2, <2>1, <2>2, <2>3 DEF JobRows
  <2>5. /\ job'[j].status = "running" /\ job'[j].attempts = n /\ job'[j].lease = n
        /\ job'[j].cancel = job[j].cancel
    BY <2>1, <2>3 DEF JobRows
  <2>6. ~job[j].cancel
    BY <1>1, <1>5 DEF Starts, RowOK
  <2> QED
    BY <1>2, <2>2, <2>4, <2>5, <2>6 DEF RowOK, n
<1>6. CASE Returns(j)
  <2> DEFINE row == Move(job[j], "queued")
  <2>1. /\ row \in JobRows /\ row.status = "queued"
        /\ row.attempts = job[j].attempts /\ row.lease = job[j].lease
        /\ row.cancel = job[j].cancel
    BY <1>1, <1>2, MoveRow
  <2>2. job'[j] = row
    BY <1>6 DEF Returns
  <2> HIDE DEF row
  <2> QED
    BY <1>1, <1>2, <1>6, <2>1, <2>2 DEF Returns, RowOK
<1>7. ASSUME NEW to \in Statuses, Leaves(j, to)
      PROVE  /\ job'[j] \in JobRows
             /\ RowOK(job'[j])
             /\ job'[j].attempts \in Nat
             /\ job'[j].attempts >= job[j].attempts
  <2> DEFINE row == Release(job[j], to)
  <2>1. /\ row \in JobRows /\ row.status = to
        /\ row.attempts = job[j].attempts /\ row.lease = NoLease
        /\ row.cancel = job[j].cancel
    BY <1>1, ReleaseRow
  <2>2. job'[j] = row
    BY <1>7 DEF Leaves
  <2> HIDE DEF row
  <2>3. /\ to \in {"succeeded", "retry_wait", "failed", "cancelled", "stale"}
        /\ to = "retry_wait" => job[j].attempts < MaxAttempts
        /\ job[j].cancel => to = "cancelled"
    BY <1>7 DEF Leaves
  <2>4. RowOK(job'[j])
    BY <1>2, <2>1, <2>2, <2>3 DEF RowOK
  <2> QED
    BY <1>2, <2>1, <2>2, <2>4
<1>8. CASE IsAccepted(j)
  <2>1. job'[j] \in JobRows
    <3>1. "queued" \in {"none"} \cup Statuses /\ 1 \in Nat
      BY <1>2
    <3>2. [job[j] EXCEPT !.status = "queued", !.revision = 1] \in JobRows
      BY <1>1, <3>1 DEF JobRows
    <3> QED
      BY <1>8, <3>2 DEF IsAccepted
  <2>2. /\ job'[j].status = "queued" /\ job'[j].attempts = job[j].attempts
        /\ job'[j].lease = job[j].lease /\ job'[j].cancel = job[j].cancel
    BY <1>1, <1>8 DEF IsAccepted, JobRows
  <2>3. 0 < MaxAttempts
    BY BoundsAssumption
  <2> QED
    BY <1>1, <1>2, <1>8, <2>1, <2>2, <2>3 DEF IsAccepted, RowOK
<1>9. CASE IsAskedToStop(j)
  <2>1. job[j].revision + 1 \in Nat
    BY <1>2
  <2>2. job'[j] \in JobRows
    BY <1>1, <1>9, <2>1 DEF IsAskedToStop, JobRows
  <2>3. /\ job'[j].status = "running" /\ job'[j].attempts = job[j].attempts
        /\ job'[j].lease = job[j].lease
    BY <1>1, <1>9 DEF IsAskedToStop, JobRows
  <2> QED
    BY <1>1, <1>2, <1>9, <2>2, <2>3 DEF IsAskedToStop, RowOK
<1>10. CASE IsCancelled(j)
  <2> DEFINE row == Move(job[j], "cancelled")
  <2>1. /\ row \in JobRows /\ row.status = "cancelled"
        /\ row.attempts = job[j].attempts /\ row.lease = job[j].lease
    BY <1>1, <1>2, MoveRow
  <2>2. job'[j] = [row EXCEPT !.cancel = TRUE]
    BY <1>10 DEF IsCancelled
  <2> HIDE DEF row
  <2>3. job'[j] \in JobRows
    BY <2>1, <2>2 DEF JobRows
  <2>4. /\ job'[j].status = "cancelled" /\ job'[j].attempts = job[j].attempts
        /\ job'[j].lease = job[j].lease
    BY <2>1, <2>2 DEF JobRows
  <2> QED
    BY <1>1, <1>2, <1>10, <2>3, <2>4 DEF IsCancelled, RowOK
<1> QED
  BY <1>3, <1>4, <1>5, <1>6, <1>7, <1>8, <1>9, <1>10 DEF JobStep, WorkStep, UserStep

-----------------------------------------------------------------------------
\* The tables stay tables of the jobs.
LEMMA TablesStayFunctions ==
  ASSUME Inv, [Next]_vars
  PROVE  /\ job' = [j \in Jobs |-> job'[j]]
         /\ log' = [j \in Jobs |-> log'[j]]
         /\ published' = [j \in Jobs |-> published'[j]]
<1>1. /\ job = [j \in Jobs |-> job[j]]
      /\ log = [j \in Jobs |-> log[j]]
      /\ published = [j \in Jobs |-> published[j]]
  BY DEF Inv, TypeOK
<1>2. ASSUME NEW k \in Jobs,
             Submit(k) \/ Cancel(k, job[k].revision)
               \/ DeadlinePasses(k) \/ LoseMessages(k)
      PROVE  /\ job' = [j \in Jobs |-> job'[j]]
             /\ log' = [j \in Jobs |-> log'[j]]
             /\ published' = [j \in Jobs |-> published'[j]]
  BY <1>1, <1>2 DEF Submit, Cancel, DeadlinePasses, LoseMessages, jobVars
<1>3. ASSUME NEW w \in Workers, NEW stopping \in {"stale", "retry", "fail"},
             WorkerStep(w) \/ Checkpoint(w) \/ StageCompleted(w) \/ Heartbeat(w)
               \/ Raise(w, stopping) \/ WorkerDies(w)
      PROVE  /\ job' = [j \in Jobs |-> job'[j]]
             /\ log' = [j \in Jobs |-> log'[j]]
             /\ published' = [j \in Jobs |-> published'[j]]
  <2>1. CASE Claim(w)
    BY <1>1, <2>1 DEF Claim
  <2>2. CASE Commit(w)
    BY <1>1, <2>2 DEF Commit, jobVars
  <2>3. CASE Settle(w) \/ SettleUnfinished(w)
    BY <1>1, <2>3 DEF Settle, SettleUnfinished, SettleAttempt
  <2>4. CASE FinishStale(w)
    BY <1>1, <2>4 DEF FinishStale
  <2>5. CASE StageCompleted(w) \/ Heartbeat(w)
    BY <1>1, <2>5 DEF StageCompleted, Heartbeat
  <2>6. CASE HandlerReturns(w) \/ Checkpoint(w) \/ Raise(w, stopping) \/ WorkerDies(w)
    BY <1>1, <2>6 DEF HandlerReturns, Checkpoint, Raise, WorkerDies, jobVars
  <2> QED
    BY <1>3, <2>1, <2>2, <2>3, <2>4, <2>5, <2>6 DEF WorkerStep
<1>4. ASSUME NEW d \in Dispatchers, DispatcherStep(d) \/ DispatcherDies(d)
      PROVE  UNCHANGED jobVars
  BY <1>4 DEF DispatcherStep, DispatchRead, Publish, PublishFails, Mark, MarkFails, DispatcherDies
<1>5. ASSUME NEW k \in Jobs, NEW w \in Workers, Receive(w, k)
      PROVE  UNCHANGED jobVars
  BY <1>5 DEF Receive
<1>6. ASSUME NEW k \in Jobs, NEW s \in Slots, BackoffPasses(k, s)
      PROVE  UNCHANGED jobVars
  BY <1>6 DEF BackoffPasses
<1>7. CASE Recover
  BY <1>1, <1>7 DEF Recover
<1>8. CASE UNCHANGED vars
  BY <1>1, <1>8 DEF vars
<1> QED
  BY <1>1, <1>2, <1>3, <1>4, <1>5, <1>6, <1>7, <1>8 DEF Next, LosslessNext, Loss, jobVars

LEMMA ReportsAreEvents ==
  ASSUME NEW row \in JobRows, row.status # "none"
  PROVE  StatusReport(row) \in Events /\ Confirmation(row) \in Events
BY ReportIsEvent DEF Confirmation, Events, EventTypes, JobRows

\* A job step adds events to the log of the job, and results to its results.
LEMMA JobStepKeepsTables ==
  ASSUME Inv, NEW j \in Jobs, JobStep(j)
  PROVE  log'[j] \in Seq(Events) /\ published'[j] \in SUBSET (1 .. MaxAttempts)
<1>1. /\ log[j] \in Seq(Events) /\ published[j] \in SUBSET (1 .. MaxAttempts)
      /\ job[j] \in JobRows /\ RowOK(job[j]) /\ job'[j] \in JobRows
  BY JobStepKeepsRow DEF Inv, TypeOK, RowsOK
<1>2. /\ job[j].attempts \in 0 .. MaxAttempts /\ MaxAttempts \in Nat
      /\ "queued" \in Statuses /\ "running" \in Statuses /\ "cancelled" \in Statuses
  BY <1>1, BoundsAssumption DEF JobRows, Statuses, Terminal
<1>3. ASSUME job'[j].status # "none", Reported(j)
      PROVE  log'[j] \in Seq(Events)
  BY <1>1, <1>3, ReportsAreEvents DEF Reported
<1>4. CASE Kept(j) \/ Waits(j) \/ IsAskedToStop(j)
  BY <1>1, <1>4 DEF Kept, Waits, IsAskedToStop
<1>5. CASE ReportsStage(j)
  <2>1. StageReport(job[j].attempts) \in Events
    BY <1>2 DEF StageReport, Events, EventTypes
  <2> QED
    BY <1>1, <1>5, <2>1 DEF ReportsStage
<1>6. CASE Starts(j)
  <2>1. job'[j].status = "running"
    BY <1>1, <1>2, <1>6, MoveRow DEF Starts, JobRows
  <2> QED
    BY <1>1, <1>3, <1>6, <2>1 DEF Starts
<1>7. CASE Returns(j)
  <2>1. Move(job[j], "queued").status = "queued"
    BY <1>1, <1>2, MoveRow
  <2> QED
    BY <1>1, <1>3, <1>7, <2>1 DEF Returns
<1>8. ASSUME NEW to \in Statuses, Leaves(j, to)
      PROVE  log'[j] \in Seq(Events) /\ published'[j] \in SUBSET (1 .. MaxAttempts)
  <2>1. Release(job[j], to).status = to
    BY <1>1, ReleaseRow
  <2>2. job'[j].status = to /\ to # "none"
    BY <1>8, <2>1 DEF Leaves
  <2>3. StatusReport(job'[j]) \in Events /\ Confirmation(job'[j]) \in Events
    BY <1>1, <2>2, ReportsAreEvents
  <2>4. log'[j] \in Seq(Events)
    <3>1. CASE Reported(j)
      BY <1>3, <2>2, <3>1
    <3>2. CASE log'[j] = Append(Append(log[j], Confirmation(job'[j])), StatusReport(job'[j]))
      <4> DEFINE c == Confirmation(job'[j])
                 r == StatusReport(job'[j])
                 l == log[j]
      <4>1. c \in Events /\ r \in Events /\ l \in Seq(Events)
        BY <1>1, <2>3
      <4>2. log'[j] = Append(Append(l, c), r)
        BY <3>2
      <4> HIDE DEF c, r, l
      <4>3. Append(l, c) \in Seq(Events)
        BY <4>1
      <4> QED
        BY <4>1, <4>2, <4>3
    <3> QED
      BY <1>8, <3>1, <3>2 DEF Leaves
  <2>5. job[j].attempts \in 1 .. MaxAttempts
    BY <1>1, <1>2, <1>8 DEF Leaves, RowOK
  <2>6. published'[j] \in SUBSET (1 .. MaxAttempts)
    BY <1>1, <1>8, <2>5 DEF Leaves
  <2> QED
    BY <2>4, <2>6
<1>9. CASE IsAccepted(j)
  <2>1. job'[j].status = "queued"
    BY <1>1, <1>9 DEF IsAccepted, JobRows
  <2> QED
    BY <1>1, <1>3, <1>9, <2>1 DEF IsAccepted
<1>10. CASE IsCancelled(j)
  <2>1. Move(job[j], "cancelled").status = "cancelled" /\ Move(job[j], "cancelled") \in JobRows
    BY <1>1, <1>2, MoveRow
  <2>2. job'[j].status = "cancelled"
    BY <1>10, <2>1 DEF IsCancelled, JobRows
  <2> QED
    BY <1>1, <1>3, <1>10, <2>2 DEF IsCancelled
<1> QED
  BY <1>4, <1>5, <1>6, <1>7, <1>8, <1>9, <1>10 DEF JobStep, WorkStep, UserStep

-----------------------------------------------------------------------------
\* The tables of the outbox and the broker, and the processes.
LEMMA QueuesStayTyped ==
  ASSUME Inv, [Next]_vars
  PROVE  /\ outbox' \in [Jobs -> [Slots -> RowStates]]
         /\ broker' \in [Jobs -> 0 .. MaxMessages]
         /\ progress' \in [Dispatchers -> [Rows -> Progress]]
<1>1. /\ outbox \in [Jobs -> [Slots -> RowStates]]
      /\ broker \in [Jobs -> 0 .. MaxMessages]
      /\ progress \in [Dispatchers -> [Rows -> Progress]]
      /\ MaxMessages \in Nat
  BY BoundsAssumption DEF Inv, TypeOK
<1>2. ASSUME NEW k \in Jobs
      PROVE  WithNewRow(k) \in [Slots -> RowStates]
  BY <1>1 DEF WithNewRow, RowStates
<1>3. ASSUME NEW k \in Jobs
      PROVE  WithMessage(k) \in [Jobs -> 0 .. MaxMessages]
  BY <1>1 DEF WithMessage
<1>11. ASSUME NEW d \in Dispatchers, NEW r \in Rows, NEW to \in Progress
       PROVE  [progress EXCEPT ![d][r] = to] \in [Dispatchers -> [Rows -> Progress]]
  BY <1>1
<1>4. ASSUME NEW k \in Jobs,
             Submit(k) \/ Cancel(k, job[k].revision)
               \/ DeadlinePasses(k) \/ LoseMessages(k)
      PROVE  /\ outbox' \in [Jobs -> [Slots -> RowStates]]
             /\ broker' \in [Jobs -> 0 .. MaxMessages]
             /\ progress' = progress
  <2>1. CASE Submit(k)
    <3>1. [outbox EXCEPT ![k] = WithNewRow(k)] \in [Jobs -> [Slots -> RowStates]]
      BY <1>1, <1>2
    <3> QED
      BY <1>1, <2>1, <3>1 DEF Submit
  <2>2. CASE LoseMessages(k)
    BY <1>1, <2>2 DEF LoseMessages
  <2>3. CASE Cancel(k, job[k].revision) \/ DeadlinePasses(k)
    BY <1>1, <2>3 DEF Cancel, DeadlinePasses
  <2> QED
    BY <1>4, <2>1, <2>2, <2>3
<1>5. ASSUME NEW d \in Dispatchers, DispatcherStep(d) \/ DispatcherDies(d)
      PROVE  /\ outbox' \in [Jobs -> [Slots -> RowStates]]
             /\ broker' \in [Jobs -> 0 .. MaxMessages]
             /\ progress' \in [Dispatchers -> [Rows -> Progress]]
  <2>1. ASSUME NEW scope \in Scopes, DispatchRead(d, scope)
        PROVE  progress' \in [Dispatchers -> [Rows -> Progress]] /\ UNCHANGED <<outbox, broker>>
    BY <1>1, <2>1 DEF DispatchRead, Progress
  <2>2. ASSUME NEW r \in Rows, Publish(d, r) \/ PublishFails(d, r)
        PROVE  /\ progress' \in [Dispatchers -> [Rows -> Progress]]
               /\ broker' \in [Jobs -> 0 .. MaxMessages]
               /\ outbox' = outbox
    <3>1. r[1] \in Jobs
      BY DEF Rows
    <3>2. WithMessage(r[1]) \in [Jobs -> 0 .. MaxMessages]
      BY <1>3, <3>1
    <3>3. broker' \in {broker, WithMessage(r[1])} /\ outbox' = outbox
      BY <2>2 DEF Publish, PublishFails
    <3>4. \E to \in Progress : progress' = [progress EXCEPT ![d][r] = to]
      BY <2>2 DEF Publish, PublishFails, Progress
    <3> QED
      BY <1>1, <1>11, <3>2, <3>3, <3>4
  <2>3. ASSUME NEW r \in Rows, Mark(d, r) \/ MarkFails(d, r)
        PROVE  /\ progress' \in [Dispatchers -> [Rows -> Progress]]
               /\ outbox' \in [Jobs -> [Slots -> RowStates]]
               /\ broker' = broker
    <3>1. r[1] \in Jobs /\ r[2] \in Slots
      BY DEF Rows
    <3>2. Marked(outbox[r[1]][r[2]], progress[d][r]) \in RowStates
      BY DEF Marked, RowStates
    <3>3. \E to \in Progress : progress' = [progress EXCEPT ![d][r] = to]
      BY <2>3 DEF Mark, MarkFails, Progress
    <3> DEFINE state == Marked(outbox[r[1]][r[2]], progress[d][r])
    <3>4. [outbox EXCEPT ![r[1]][r[2]] = state] \in [Jobs -> [Slots -> RowStates]]
      <4> HIDE DEF state
      <4> QED
        BY <1>1, <3>1, <3>2 DEF state
    <3>5. outbox' \in {outbox, [outbox EXCEPT ![r[1]][r[2]] = state]} /\ broker' = broker
      BY <2>3 DEF Mark, MarkFails
    <3>6. progress' \in [Dispatchers -> [Rows -> Progress]]
      BY <1>11, <3>3
    <3> HIDE DEF state
    <3> QED
      BY <1>1, <3>4, <3>5, <3>6
  <2>4. CASE DispatcherDies(d)
    BY <1>1, <2>4 DEF DispatcherDies, Progress
  <2> QED
    BY <1>1, <1>5, <2>1, <2>2, <2>3, <2>4 DEF DispatcherStep
<1>6. ASSUME NEW w \in Workers, NEW stopping \in {"stale", "retry", "fail"},
             WorkerStep(w) \/ Checkpoint(w) \/ StageCompleted(w) \/ Heartbeat(w)
               \/ Raise(w, stopping) \/ WorkerDies(w)
      PROVE  UNCHANGED <<outbox, broker, progress>>
  BY <1>6 DEF WorkerStep, Claim, HandlerReturns, Commit, Settle, SettleUnfinished, SettleAttempt,
              FinishStale, Checkpoint, StageCompleted, Heartbeat, Raise, WorkerDies
<1>7. ASSUME NEW k \in Jobs, NEW w \in Workers, Receive(w, k)
      PROVE  broker' \in [Jobs -> 0 .. MaxMessages] /\ UNCHANGED <<outbox, progress>>
  BY <1>1, <1>7 DEF Receive
<1>8. ASSUME NEW k \in Jobs, NEW s \in Slots, BackoffPasses(k, s)
      PROVE  outbox' \in [Jobs -> [Slots -> RowStates]] /\ UNCHANGED <<broker, progress>>
  BY <1>1, <1>8 DEF BackoffPasses, RowStates
<1>9. CASE Recover
  BY <1>1, <1>2, <1>9 DEF Recover
<1>10. CASE UNCHANGED vars
  BY <1>1, <1>10 DEF vars
<1> QED
  BY <1>1, <1>4, <1>5, <1>6, <1>7, <1>8, <1>9, <1>10 DEF Next, LosslessNext, Loss

\* Only a worker's own steps change what it does, and they keep it in order.
LEMMA AttemptsStayOK ==
  ASSUME Inv, [Next]_vars
  PROVE  worker' \in [Workers -> Attempts] /\ AttemptsOK'
<1> DEFINE Good(a) == a \in Attempts /\ AttemptOK(a, job')
<1>1. /\ worker \in [Workers -> Attempts]
      /\ \A v \in Workers : AttemptOK(worker[v], job)
      /\ MaxAttempts \in Nat /\ MaxStages \in Nat
  BY BoundsAssumption DEF Inv, TypeOK, AttemptsOK
<1>2. \A j \in Jobs : /\ job[j].attempts \in Nat /\ job'[j].attempts \in Nat
                      /\ job'[j].attempts >= job[j].attempts
  BY <1>1, EveryStepIsAJobStep, JobStepKeepsRow DEF Inv, TypeOK, JobRows
<1>3. \A v \in Workers : Good(worker[v])
  BY <1>1, <1>2 DEF AttemptOK, Running, Ending, Attempts
<1>4. Good(Idle)
  BY <1>1 DEF AttemptOK, Idle, Attempts, Running, Ending, NoLease
<1>5. SUFFICES ASSUME worker' # worker
              PROVE  \E w \in Workers : /\ worker' = [worker EXCEPT ![w] = worker'[w]]
                                        /\ Good(worker'[w])
  BY <1>1, <1>3 DEF AttemptsOK, AttemptOK
<1>6. ASSUME NEW w \in Workers, NEW j \in Jobs, Receive(w, j)
      PROVE  worker' = [worker EXCEPT ![w] = worker'[w]] /\ Good(worker'[w])
  <2>1. worker'[w] = [Idle EXCEPT !.phase = "received", !.job = j]
    BY <1>1, <1>6 DEF Receive
  <2>2. worker'[w] \in Attempts
    BY <1>4, <2>1 DEF Attempts
  <2>3. AttemptOK(worker'[w], job')
    BY <2>1 DEF AttemptOK, Idle, Running, Ending
  <2> QED
    BY <1>1, <1>6, <2>2, <2>3 DEF Receive
<1>7. ASSUME NEW w \in Workers, Finish(w)
      PROVE  worker' = [worker EXCEPT ![w] = worker'[w]] /\ Good(worker'[w])
  BY <1>1, <1>4, <1>7 DEF Finish
<1>8. ASSUME NEW w \in Workers, worker[w].phase \in Running,
             NEW phase \in Running, NEW lost \in BOOLEAN, NEW stages \in 0 .. MaxStages,
             worker' =
               [worker EXCEPT ![w] = [worker[w] EXCEPT !.phase = phase, !.lost = lost, !.stages = stages]]
      PROVE  worker' = [worker EXCEPT ![w] = worker'[w]] /\ Good(worker'[w])
  <2>1. worker'[w] = [worker[w] EXCEPT !.phase = phase, !.lost = lost, !.stages = stages]
    BY <1>1, <1>8
  <2>2. worker[w] \in Attempts /\ phase \in {"idle", "received"} \cup Running
    BY <1>1
  <2>3. worker'[w] \in Attempts
    BY <2>1, <2>2 DEF Attempts
  <2>4. /\ worker'[w].phase = phase /\ worker'[w].job = worker[w].job
        /\ worker'[w].token = worker[w].token
    BY <2>1, <2>2 DEF Attempts
  <2>5. AttemptOK(worker'[w], job')
    BY <1>3, <1>8, <2>4 DEF AttemptOK, Running, Ending
  <2> QED
    BY <1>1, <1>8, <2>3, <2>5
<1>9. ASSUME NEW w \in Workers, worker[w].phase \in Running, NEW phase \in Running, Goto(w, phase)
      PROVE  worker' = [worker EXCEPT ![w] = worker'[w]] /\ Good(worker'[w])
  <2> DEFINE lost == worker[w].lost
             stages == worker[w].stages
  <2>1. lost \in BOOLEAN /\ stages \in 0 .. MaxStages
    BY <1>1 DEF Attempts
  <2>2. worker' =
          [worker EXCEPT ![w] = [worker[w] EXCEPT !.phase = phase, !.lost = lost, !.stages = stages]]
    BY <1>1, <1>9 DEF Goto, Attempts
  <2> HIDE DEF lost, stages
  <2> QED
    BY <1>8, <1>9, <2>1, <2>2
<1>10. ASSUME NEW w \in Workers, worker[w].phase \in Running, Interrupted(w)
       PROVE  worker' = [worker EXCEPT ![w] = worker'[w]] /\ Good(worker'[w])
  <2> DEFINE phase == "unfinished"
             stages == worker[w].stages
  <2>1. phase \in Running /\ stages \in 0 .. MaxStages
    BY <1>1 DEF Attempts, Running, Ending
  <2>2. worker' =
          [worker EXCEPT ![w] = [worker[w] EXCEPT !.phase = phase, !.lost = TRUE, !.stages = stages]]
    BY <1>1, <1>10 DEF Interrupted, Attempts
  <2> HIDE DEF phase, stages
  <2> QED
    BY <1>8, <1>10, <2>1, <2>2
<1>11. ASSUME NEW w \in Workers, Claim(w)
       PROVE  worker' = [worker EXCEPT ![w] = worker'[w]] /\ Good(worker'[w])
  <2> DEFINE j == worker[w].job
             n == job[j].attempts + 1
  <2>1. CASE ~Claimable(j)
    BY <1>7, <1>11, <2>1 DEF Claim
  <2>2. CASE Claimable(j)
    <3>1. j \in Jobs /\ worker[w] \in Attempts
      BY <1>1, <1>11 DEF AttemptOK, Claim
    <3>2. Starts(j)
      BY <1>11, <2>2, <3>1 DEF Claim, Claimable, Starts, Reported, Inv, TypeOK
    <3>3. job[j] \in JobRows /\ RowOK(job[j])
      BY <3>1 DEF Inv, TypeOK, RowsOK
    <3>4. n \in 1 .. MaxAttempts /\ n \in 0 .. MaxAttempts
      BY <1>1, <3>2, <3>3 DEF Starts, RowOK, JobRows
    <3>5. Move(job[j], "running") \in JobRows /\ Move(job[j], "running").attempts = job[j].attempts
      BY <3>3, MoveRow DEF Statuses
    <3>6. job'[j].attempts = n
      BY <3>2, <3>5 DEF Starts, JobRows
    <3>7. worker' = [worker EXCEPT ![w].phase = "computing", ![w].token = n]
      BY <1>11, <2>2, <3>3, <3>5 DEF Claim, JobRows
    <3>8. worker'[w] = [worker[w] EXCEPT !.phase = "computing", !.token = n]
      BY <1>1, <3>7
    <3> HIDE DEF n
    <3>9. "computing" \in {"idle", "received"} \cup Running
      BY DEF Running
    <3>10. worker'[w] \in Attempts
      BY <3>1, <3>4, <3>8, <3>9 DEF Attempts
    <3>11. worker'[w].job = j /\ worker'[w].token = n
      BY <3>1, <3>8 DEF Attempts
    <3>12. AttemptOK(worker'[w], job')
      BY <3>1, <3>4, <3>6, <3>11 DEF AttemptOK
    <3> QED
      BY <1>1, <3>7, <3>10, <3>12
  <2> QED
    BY <2>1, <2>2
<1>12. ASSUME NEW w \in Workers, WorkerStep(w)
       PROVE  worker' = [worker EXCEPT ![w] = worker'[w]] /\ Good(worker'[w])
  <2>1. CASE HandlerReturns(w)
    BY <1>9, <2>1 DEF HandlerReturns, Running
  <2>2. CASE Commit(w)
    BY <1>7, <1>9, <2>2 DEF Commit, Running, Ending
  <2>3. CASE Settle(w) \/ SettleUnfinished(w)
    BY <1>7, <2>3 DEF Settle, SettleUnfinished, SettleAttempt
  <2>4. CASE FinishStale(w)
    BY <1>7, <1>9, <2>4 DEF FinishStale, Running, Ending
  <2> QED
    BY <1>11, <1>12, <2>1, <2>2, <2>3, <2>4 DEF WorkerStep
<1>13. ASSUME NEW w \in Workers, Checkpoint(w)
       PROVE  worker' = [worker EXCEPT ![w] = worker'[w]] /\ Good(worker'[w])
  BY <1>9, <1>10, <1>13 DEF Checkpoint, Running, Ending
<1>14. ASSUME NEW w \in Workers, NEW stopping \in {"stale", "retry", "fail"}, Raise(w, stopping)
       PROVE  worker' = [worker EXCEPT ![w] = worker'[w]] /\ Good(worker'[w])
  BY <1>9, <1>14 DEF Raise, Running, Ending
<1>15. ASSUME NEW w \in Workers, StageCompleted(w)
       PROVE  worker' = [worker EXCEPT ![w] = worker'[w]] /\ Good(worker'[w])
  <2> DEFINE lost == worker[w].lost
             stages == worker[w].stages + 1
             phase == "computing"
  <2>1. worker[w].phase = phase /\ phase \in Running
    BY <1>15 DEF StageCompleted, Running
  <2>2. CASE Owns(w)
    <3>1. lost \in BOOLEAN /\ stages \in 0 .. MaxStages
      BY <1>1, <1>15 DEF Attempts, StageCompleted
    <3>2. worker' =
            [worker EXCEPT ![w] = [worker[w] EXCEPT !.phase = phase, !.lost = lost, !.stages = stages]]
      BY <1>1, <1>15, <2>1, <2>2 DEF StageCompleted, Attempts
    <3> HIDE DEF lost, stages, phase
    <3> QED
      BY <1>8, <2>1, <3>1, <3>2
  <2>3. CASE ~Owns(w)
    BY <1>10, <1>15, <2>1, <2>3 DEF StageCompleted
  <2> QED
    BY <2>2, <2>3
<1>16. ASSUME NEW w \in Workers, Heartbeat(w)
       PROVE  worker' = [worker EXCEPT ![w] = worker'[w]] /\ Good(worker'[w])
  <2> DEFINE phase == worker[w].phase
             stages == worker[w].stages
  <2>1. phase \in Running /\ stages \in 0 .. MaxStages
    BY <1>1, <1>16 DEF Attempts, Heartbeat
  <2>2. worker' =
          [worker EXCEPT ![w] = [worker[w] EXCEPT !.phase = phase, !.lost = TRUE, !.stages = stages]]
    BY <1>1, <1>5, <1>16 DEF Heartbeat, Attempts
  <2> HIDE DEF phase, stages
  <2> QED
    BY <1>8, <1>16, <2>1, <2>2 DEF phase
<1>17. ASSUME NEW d \in Dispatchers, DispatcherStep(d) \/ DispatcherDies(d)
       PROVE  worker' = worker
  BY <1>17 DEF DispatcherStep, DispatchRead, Publish, PublishFails, Mark, MarkFails, DispatcherDies
<1>18. ASSUME NEW k \in Jobs,
              Submit(k) \/ Cancel(k, job[k].revision)
                \/ DeadlinePasses(k) \/ LoseMessages(k)
       PROVE  worker' = worker
  BY <1>18 DEF Submit, Cancel, DeadlinePasses, LoseMessages
<1>19. ASSUME NEW k \in Jobs, NEW s \in Slots, BackoffPasses(k, s)
       PROVE  worker' = worker
  BY <1>19 DEF BackoffPasses
<1>20. ASSUME NEW w \in Workers, WorkerDies(w)
       PROVE  worker' = [worker EXCEPT ![w] = worker'[w]] /\ Good(worker'[w])
  BY <1>7, <1>20 DEF WorkerDies
<1>21. worker' = worker
         \/ \E w \in Workers : worker' = [worker EXCEPT ![w] = worker'[w]] /\ Good(worker'[w])
  <2>1. CASE Recover \/ UNCHANGED vars
    BY <2>1 DEF Recover, vars
  <2> HIDE DEF Good
  <2> QED
    BY <1>6, <1>12, <1>13, <1>14, <1>15, <1>16, <1>17, <1>18, <1>19, <1>20, <2>1
    DEF Next, LosslessNext, Loss
<1> HIDE DEF Good
<1> QED
  BY <1>5, <1>21

-----------------------------------------------------------------------------
LEMMA InitInv == Init => Inv
<1> SUFFICES ASSUME Init PROVE Inv
  OBVIOUS
<1>1. NoRow \in JobRows /\ RowOK(NoRow)
  BY BoundsAssumption DEF NoRow, NoLease, JobRows, RowOK
<1>2. Idle \in Attempts /\ Idle.phase = "idle" /\ "idle" \notin Running
  BY BoundsAssumption DEF Idle, NoLease, Attempts, Running, Ending
<1>3. /\ log \in [Jobs -> Seq(Events)]
      /\ published \in [Jobs -> SUBSET (1 .. MaxAttempts)]
      /\ outbox \in [Jobs -> [Slots -> RowStates]]
      /\ broker \in [Jobs -> 0 .. MaxMessages]
      /\ progress \in [Dispatchers -> [Rows -> Progress]]
  BY BoundsAssumption DEF Init, RowStates, Progress
<1> QED
  BY <1>1, <1>2, <1>3 DEF Init, Inv, TypeOK, RowsOK, AttemptsOK, AttemptOK

LEMMA NextInv == Inv /\ [Next]_vars => Inv'
<1> SUFFICES ASSUME Inv, [Next]_vars PROVE Inv'
  OBVIOUS
<1>1. \A j \in Jobs : /\ job'[j] \in JobRows /\ RowOK(job'[j])
                     /\ log'[j] \in Seq(Events) /\ published'[j] \in SUBSET (1 .. MaxAttempts)
  BY EveryStepIsAJobStep, JobStepKeepsRow, JobStepKeepsTables
<1>2. /\ job' \in [Jobs -> JobRows]
      /\ log' \in [Jobs -> Seq(Events)]
      /\ published' \in [Jobs -> SUBSET (1 .. MaxAttempts)]
  BY <1>1, TablesStayFunctions
<1>3. TypeOK'
  BY <1>2, QueuesStayTyped, AttemptsStayOK DEF TypeOK
<1>4. RowsOK'
  BY <1>1 DEF RowsOK
<1> QED
  BY <1>3, <1>4, AttemptsStayOK DEF Inv

\* The inductive invariant holds in every reachable state.
THEOREM Invariance == Spec => []Inv
BY InitInv, NextInv, PTL DEF Spec

\* Type correctness: no table, queue or process ever leaves its domain; with
\* it, no job is ever claimed more than MaxAttempts times (store.py, E13).
THEOREM TypeCorrect == Spec => []TypeOK
<1>1. Inv => TypeOK
  BY DEF Inv
<1> QED
  BY <1>1, Invariance, PTL

-----------------------------------------------------------------------------
\* What a row becomes, as far as the properties below look at it.
LEMMA JobStepFields ==
  ASSUME Inv, NEW j \in Jobs, JobStep(j)
  PROVE  /\ Kept(j) \/ ReportsStage(j) => job'[j] = job[j]
         /\ Waits(j) => /\ job'[j].status = job[j].status /\ job'[j].cancel = job[j].cancel
                        /\ job'[j].attempts = job[j].attempts
                        /\ job'[j].revision = job[j].revision
         /\ Starts(j) => /\ job'[j].status = "running" /\ job'[j].cancel = job[j].cancel
                         /\ job'[j].attempts = job[j].attempts + 1
                         /\ job'[j].revision = job[j].revision + 1
         /\ Returns(j) => /\ job'[j].status = "queued" /\ job'[j].cancel = job[j].cancel
                          /\ job'[j].attempts = job[j].attempts
                          /\ job'[j].revision = job[j].revision + 1
         /\ \A to \in Statuses :
              Leaves(j, to) => /\ job'[j].status = to /\ job'[j].cancel = job[j].cancel
                               /\ job'[j].attempts = job[j].attempts
                               /\ job'[j].revision = job[j].revision + 1
         /\ IsAccepted(j) => /\ job'[j].status = "queued" /\ job'[j].cancel = job[j].cancel
                             /\ job'[j].attempts = job[j].attempts
                             /\ job'[j].revision = 1
         /\ IsAskedToStop(j) => /\ job'[j].status = "running" /\ job'[j].cancel = TRUE
                                /\ job'[j].attempts = job[j].attempts
                                /\ job'[j].revision = job[j].revision + 1
         /\ IsCancelled(j) => /\ job'[j].status = "cancelled" /\ job'[j].cancel = TRUE
                              /\ job'[j].attempts = job[j].attempts
                              /\ job'[j].revision = job[j].revision + 1
<1>1. /\ job[j] \in JobRows
      /\ "queued" \in Statuses /\ "running" \in Statuses /\ "cancelled" \in Statuses
  BY DEF Inv, TypeOK, Statuses, Terminal
<1>2. \A to \in Statuses :
        /\ Move(job[j], to) \in JobRows /\ Move(job[j], to).status = to
        /\ Move(job[j], to).attempts = job[j].attempts
        /\ Move(job[j], to).cancel = job[j].cancel
        /\ Move(job[j], to).revision = job[j].revision + 1
  BY <1>1, MoveRow
<1>3. \A to \in Statuses :
        /\ Release(job[j], to).status = to
        /\ Release(job[j], to).attempts = job[j].attempts
        /\ Release(job[j], to).cancel = job[j].cancel
        /\ Release(job[j], to).revision = job[j].revision + 1
  BY <1>1, ReleaseRow
<1>4. Kept(j) \/ ReportsStage(j) => job'[j] = job[j]
  BY DEF Kept, ReportsStage
<1>5. Waits(j) => /\ job'[j].status = job[j].status /\ job'[j].cancel = job[j].cancel
                 /\ job'[j].attempts = job[j].attempts
                 /\ job'[j].revision = job[j].revision
  BY <1>1 DEF Waits, JobRows
<1>6. Starts(j) => /\ job'[j].status = "running" /\ job'[j].cancel = job[j].cancel
                  /\ job'[j].attempts = job[j].attempts + 1
                  /\ job'[j].revision = job[j].revision + 1
  BY <1>1, <1>2 DEF Starts, JobRows
<1>7. Returns(j) => /\ job'[j].status = "queued" /\ job'[j].cancel = job[j].cancel
                   /\ job'[j].attempts = job[j].attempts
                   /\ job'[j].revision = job[j].revision + 1
  BY <1>1, <1>2 DEF Returns
<1>8. ASSUME NEW to \in Statuses, Leaves(j, to)
      PROVE  /\ job'[j].status = to /\ job'[j].cancel = job[j].cancel
             /\ job'[j].attempts = job[j].attempts
             /\ job'[j].revision = job[j].revision + 1
  BY <1>3, <1>8 DEF Leaves
<1>9. IsAccepted(j) => /\ job'[j].status = "queued" /\ job'[j].cancel = job[j].cancel
                      /\ job'[j].attempts = job[j].attempts
                      /\ job'[j].revision = 1
  BY <1>1 DEF IsAccepted, JobRows
<1>10. IsAskedToStop(j) => /\ job'[j].status = "running" /\ job'[j].cancel = TRUE
                          /\ job'[j].attempts = job[j].attempts
                          /\ job'[j].revision = job[j].revision + 1
  BY <1>1 DEF IsAskedToStop, JobRows
<1>11. IsCancelled(j) => /\ job'[j].status = "cancelled" /\ job'[j].cancel = TRUE
                        /\ job'[j].attempts = job[j].attempts
                        /\ job'[j].revision = job[j].revision + 1
  BY <1>1, <1>2 DEF IsCancelled, JobRows
<1> QED
  BY <1>4, <1>5, <1>6, <1>7, <1>8, <1>9, <1>10, <1>11

\* A business result is in the database exactly if the job has succeeded, and
\* it is the one of the latest attempt.
THEOREM ResultCorrect == Spec => []ResultIsOfLatestAttempt
<1>1. Init => ResultIsOfLatestAttempt
  <2> SUFFICES ASSUME Init, NEW j \in Jobs
               PROVE  published[j] = IF job[j].status = "succeeded" THEN {job[j].attempts} ELSE {}
    BY DEF ResultIsOfLatestAttempt
  <2>1. job[j].status = "none" /\ published[j] = {}
    BY DEF Init, NoRow
  <2> QED
    BY <2>1
<1>2. Inv /\ ResultIsOfLatestAttempt /\ [Next]_vars => ResultIsOfLatestAttempt'
  <2> SUFFICES ASSUME Inv, ResultIsOfLatestAttempt, [Next]_vars, NEW j \in Jobs
               PROVE  published'[j] =
                        IF job'[j].status = "succeeded" THEN {job'[j].attempts} ELSE {}
    BY DEF ResultIsOfLatestAttempt
  <2>1. JobStep(j)
    BY EveryStepIsAJobStep
  <2>2. published[j] = IF job[j].status = "succeeded" THEN {job[j].attempts} ELSE {}
    BY DEF ResultIsOfLatestAttempt
  <2>3. ASSUME NEW to \in Statuses, Leaves(j, to)
        PROVE  published'[j] =
                 IF job'[j].status = "succeeded" THEN {job'[j].attempts} ELSE {}
    BY <2>1, <2>2, <2>3, JobStepFields DEF Leaves
  <2>4. CASE Kept(j) \/ Waits(j) \/ ReportsStage(j)
    BY <2>1, <2>2, <2>4, JobStepFields DEF Kept, Waits, ReportsStage
  <2>5. CASE Starts(j) \/ Returns(j)
    BY <2>1, <2>2, <2>5, JobStepFields DEF Starts, Returns
  <2>6. CASE UserStep(j)
    BY <2>1, <2>2, <2>6, JobStepFields DEF UserStep, IsAccepted, IsAskedToStop, IsCancelled
  <2> QED
    BY <2>1, <2>3, <2>4, <2>5, <2>6 DEF JobStep, WorkStep
<1> QED
  BY <1>1, <1>2, Invariance, PTL DEF Spec

\* A finished job never changes again, whoever is late.
THEOREM TerminalStays == Spec => TerminalIsFinal
<1>1. Inv /\ [Next]_vars =>
        \A j \in Jobs : job[j].status \in Terminal =>
          job'[j] = job[j] /\ log'[j] = log[j] /\ published'[j] = published[j]
  BY EveryStepIsAJobStep
  DEF JobStep, WorkStep, UserStep, Kept, Waits, ReportsStage, Starts, Returns, Leaves,
      IsAccepted, IsAskedToStop, IsCancelled, Terminal, Open
<1> QED
  BY <1>1, Invariance, PTL DEF Spec, TerminalIsFinal

\* No commit, retry or stale result gets past a request to cancel.
THEOREM CancelHonoured == Spec => CancelIsHonoured
<1>1. Inv /\ [Next]_vars =>
        \A j \in Jobs : job[j].status = "running" /\ job[j].cancel =>
          job'[j].status \in {"running", "cancelled"}
  <2> SUFFICES ASSUME Inv, [Next]_vars, NEW j \in Jobs, job[j].status = "running", job[j].cancel
               PROVE  job'[j].status \in {"running", "cancelled"}
    OBVIOUS
  <2>1. JobStep(j)
    BY EveryStepIsAJobStep
  <2>2. ASSUME NEW to \in Statuses, Leaves(j, to)
        PROVE  job'[j].status = "cancelled"
    BY <2>1, <2>2, JobStepFields DEF Leaves
  <2>3. CASE Kept(j) \/ Waits(j) \/ ReportsStage(j)
    BY <2>1, <2>3, JobStepFields
  <2>4. ~Starts(j) /\ ~Returns(j) /\ ~IsAccepted(j) /\ ~IsCancelled(j) /\ ~IsAskedToStop(j)
    BY DEF Starts, Returns, IsAccepted, IsCancelled, IsAskedToStop
  <2> QED
    BY <2>1, <2>2, <2>3, <2>4 DEF JobStep, WorkStep, UserStep
<1> QED
  BY <1>1, Invariance, PTL DEF Spec, CancelIsHonoured

\* The revision a client must present moves exactly with what the client sees.
THEOREM RevisionCorrect == Spec => RevisionTracksState
<1>1. Inv /\ [Next]_vars =>
        \A j \in Jobs :
          job'[j].revision = job[j].revision +
            (IF <<job'[j].status, job'[j].cancel>> # <<job[j].status, job[j].cancel>> THEN 1 ELSE 0)
  <2> SUFFICES ASSUME Inv, [Next]_vars, NEW j \in Jobs
               PROVE  job'[j].revision = job[j].revision +
                        (IF <<job'[j].status, job'[j].cancel>> # <<job[j].status, job[j].cancel>>
                         THEN 1 ELSE 0)
    OBVIOUS
  <2>1. JobStep(j)
    BY EveryStepIsAJobStep
  <2>2. job[j].revision \in Nat /\ RowOK(job[j])
    BY DEF Inv, TypeOK, RowsOK, JobRows
  <2>3. ASSUME NEW to \in Statuses, Leaves(j, to)
        PROVE  job'[j].status # job[j].status /\ job'[j].revision = job[j].revision + 1
    BY <2>1, <2>3, JobStepFields DEF Leaves
  <2>4. CASE Kept(j) \/ ReportsStage(j) \/ Waits(j)
    <3>1. /\ job'[j].status = job[j].status /\ job'[j].cancel = job[j].cancel
          /\ job'[j].revision = job[j].revision
      BY <2>1, <2>4, JobStepFields
    <3> QED
      BY <2>2, <3>1
  <2>5. CASE Starts(j) \/ Returns(j) \/ IsCancelled(j)
    <3>1. job'[j].revision = job[j].revision + 1
      BY <2>1, <2>5, JobStepFields
    <3>2. job'[j].status # job[j].status
      BY <2>1, <2>5, JobStepFields DEF Starts, Returns, IsCancelled
    <3> QED
      BY <2>2, <3>1, <3>2
  <2>6. CASE IsAccepted(j)
    <3>1. job'[j].status = "queued" /\ job'[j].revision = 1
      BY <2>1, <2>6, JobStepFields
    <3>2. job[j].status = "none" /\ job[j].revision = 0
      BY <2>2, <2>6 DEF IsAccepted, RowOK
    <3> QED
      BY <3>1, <3>2
  <2>7. CASE IsAskedToStop(j)
    <3>1. job'[j].revision = job[j].revision + 1 /\ job'[j].cancel = TRUE /\ ~job[j].cancel
      BY <2>1, <2>7, JobStepFields DEF IsAskedToStop
    <3>2. job'[j].cancel # job[j].cancel
      BY <3>1
    <3> QED
      BY <2>2, <3>1, <3>2
  <2> QED
    BY <2>1, <2>2, <2>3, <2>4, <2>5, <2>6, <2>7 DEF JobStep, WorkStep, UserStep
<1> QED
  BY <1>1, Invariance, PTL DEF Spec, RevisionTracksState

\* At most one job holds a dedupe key: a job comes to hold one only when it is
\* accepted, one job at a time, and only while no other job holds the key.
THEOREM DedupeCorrect == Spec => []OneHolderPerKey
<1>1. Init => OneHolderPerKey
  <2> SUFFICES ASSUME Init, NEW j \in Jobs
               PROVE  job[j].status \notin Holding
    BY DEF OneHolderPerKey
  <2> QED
    BY DEF Init, NoRow, Holding
<1>2. Inv /\ OneHolderPerKey /\ [Next]_vars => OneHolderPerKey'
  <2> SUFFICES ASSUME Inv, OneHolderPerKey, [Next]_vars
               PROVE  OneHolderPerKey'
    OBVIOUS
  <2>1. ASSUME NEW j \in Jobs, JobStep(j), ~IsAccepted(j), job'[j].status \in Holding
        PROVE  job[j].status \in Holding
    <3>1. ASSUME NEW to \in Statuses, Leaves(j, to)
          PROVE  job[j].status \in Holding
      BY <3>1 DEF Leaves, Holding
    <3>2. CASE Kept(j) \/ Waits(j) \/ ReportsStage(j)
      BY <2>1, <3>2, JobStepFields
    <3>3. CASE Starts(j) \/ Returns(j) \/ IsAskedToStop(j) \/ IsCancelled(j)
      BY <3>3 DEF Starts, Returns, IsAskedToStop, IsCancelled, Holding
    <3> QED
      BY <2>1, <3>1, <3>2, <3>3 DEF JobStep, WorkStep, UserStep
  <2>2. CASE \A j \in Jobs : ~IsAccepted(j)
    BY <2>1, <2>2, EveryStepIsAJobStep DEF OneHolderPerKey
  <2>3. ASSUME NEW k \in Jobs, IsAccepted(k)
        PROVE  OneHolderPerKey'
    <3>1. UserNext
      <4> SUFFICES ASSUME ~UserNext PROVE FALSE
        OBVIOUS
      <4>1. WorkStep(k)
        BY OtherStepsAreWork
      <4>2. job[k].status = "none" /\ job'[k].status = "queued"
        BY <2>3, <4>1, JobStepFields DEF IsAccepted, JobStep, UserStep
      <4>3. ASSUME NEW to \in Statuses, Leaves(k, to)
            PROVE  FALSE
        BY <4>2, <4>3 DEF Leaves
      <4>4. ~Kept(k)
        BY <4>2 DEF Kept
      <4> QED
        BY <4>1, <4>2, <4>3, <4>4 DEF WorkStep, Waits, ReportsStage, Starts, Returns, Open
    <3>2. PICK i \in Jobs : UserStep(i) /\ \A j \in Jobs \ {i} : Kept(j)
      BY <3>1, UserStepIsOfOneJob
    <3>3. k = i
      <4> SUFFICES ASSUME k # i PROVE FALSE
        OBVIOUS
      <4>1. job'[k] = job[k]
        BY <3>2 DEF Kept
      <4> QED
        BY <2>3, <4>1, EveryStepIsAJobStep, JobStepFields DEF IsAccepted
    <3>4. \A j \in Jobs \ {k} : job'[j] = job[j]
      BY <3>2, <3>3 DEF Kept
    <3>5. \A j \in Jobs : DedupeKey[j] = DedupeKey[k] => job[j].status \notin Holding
      BY <2>3 DEF IsAccepted, KeyIsHeld
    <3> QED
      BY <3>4, <3>5 DEF OneHolderPerKey
  <2> QED
    BY <2>2, <2>3
<1> QED
  BY <1>1, <1>2, Invariance, PTL DEF Spec

-----------------------------------------------------------------------------
(***************************************************************************)
(* The log.  The attempt of its last event is the attempt of the job, which *)
(* is what makes LogIsSerial inductive.                                    *)
(***************************************************************************)
LastAttempt(events) == IF events = << >> THEN 0 ELSE events[Len(events)].attempt

Serial(events) ==
  \A i \in 1 .. Len(events) :
    events[i].attempt =
      (IF i = 1 THEN 0 ELSE events[i - 1].attempt) + (IF events[i].type = "started" THEN 1 ELSE 0)

LogFollows(j) == Serial(log[j]) /\ LastAttempt(log[j]) = job[j].attempts

LEMMA AppendSerial ==
  ASSUME NEW events \in Seq(Events), Serial(events), NEW e \in Events,
         e.attempt = LastAttempt(events) + (IF e.type = "started" THEN 1 ELSE 0)
  PROVE  Serial(Append(events, e)) /\ LastAttempt(Append(events, e)) = e.attempt
<1> DEFINE n == Len(events)
           longer == Append(events, e)
<1>1. /\ n \in Nat /\ Len(longer) = n + 1 /\ longer[n + 1] = e
      /\ longer \in Seq(Events)
      /\ \A i \in 1 .. n : longer[i] = events[i]
  OBVIOUS
<1>2. LastAttempt(longer) = e.attempt
  BY <1>1 DEF LastAttempt
<1>3. LastAttempt(events) = IF n = 0 THEN 0 ELSE events[n].attempt
  BY DEF LastAttempt
<1>4. ASSUME NEW i \in 1 .. n + 1
      PROVE  longer[i].attempt =
               (IF i = 1 THEN 0 ELSE longer[i - 1].attempt)
               + (IF longer[i].type = "started" THEN 1 ELSE 0)
  <2>1. CASE i = n + 1
    <3>1. CASE n = 0
      BY <1>1, <1>3, <2>1, <3>1
    <3>2. CASE n # 0
      <4>1. i # 1 /\ i - 1 = n /\ n \in 1 .. n
        BY <1>1, <2>1, <3>2
      <4>2. longer[i - 1] = events[n]
        BY <1>1, <4>1
      <4> QED
        BY <1>1, <1>3, <2>1, <3>2, <4>1, <4>2
    <3> QED
      BY <3>1, <3>2
  <2>2. CASE i # n + 1
    <3>1. i \in 1 .. n
      BY <1>1, <2>2
    <3>2. i # 1 => i - 1 \in 1 .. n
      BY <1>1, <3>1
    <3>3. longer[i] = events[i] /\ (i # 1 => longer[i - 1] = events[i - 1])
      BY <1>1, <3>1, <3>2
    <3>4. events[i].attempt =
            (IF i = 1 THEN 0 ELSE events[i - 1].attempt)
            + (IF events[i].type = "started" THEN 1 ELSE 0)
      BY <3>1 DEF Serial
    <3> QED
      BY <3>3, <3>4
  <2> QED
    BY <2>1, <2>2
<1>5. Serial(longer)
  BY <1>1, <1>4 DEF Serial
<1> QED
  BY <1>2, <1>5

LEMMA JobStepFollows ==
  ASSUME Inv, NEW j \in Jobs, JobStep(j), LogFollows(j)
  PROVE  Serial(log'[j]) /\ LastAttempt(log'[j]) = job'[j].attempts
<1>1. /\ log[j] \in Seq(Events) /\ Serial(log[j]) /\ LastAttempt(log[j]) = job[j].attempts
      /\ job[j].attempts \in 0 .. MaxAttempts /\ MaxAttempts \in Nat
      /\ job'[j] \in JobRows
  BY JobStepKeepsRow, BoundsAssumption DEF Inv, TypeOK, JobRows, LogFollows
<1>2. ASSUME job'[j].status # "none", Reported(j),
             job'[j].attempts = job[j].attempts + (IF job'[j].status = "running" THEN 1 ELSE 0)
      PROVE  Serial(log'[j]) /\ LastAttempt(log'[j]) = job'[j].attempts
  <2> DEFINE e == StatusReport(job'[j])
  <2>1. e \in Events
    BY <1>1, <1>2, ReportsAreEvents
  <2>2. e.attempt = job'[j].attempts /\ (e.type = "started" <=> job'[j].status = "running")
    BY <1>1, <1>2 DEF StatusReport, StatusEvent, JobRows, Statuses, Terminal
  <2>3. log'[j] = Append(log[j], e)
    BY <1>2 DEF Reported
  <2> HIDE DEF e
  <2>4. e.attempt = LastAttempt(log[j]) + (IF e.type = "started" THEN 1 ELSE 0)
    BY <1>1, <1>2, <2>2
  <2> QED
    BY <1>1, <2>1, <2>2, <2>3, <2>4, AppendSerial
<1>3. CASE Kept(j)
  BY <1>1, <1>3 DEF Kept
<1>4. CASE Waits(j) \/ IsAskedToStop(j)
  <2>1. job'[j].attempts = job[j].attempts /\ log'[j] = log[j]
    BY <1>4, JobStepFields DEF Waits, IsAskedToStop
  <2> QED
    BY <1>1, <2>1
<1>5. CASE ReportsStage(j)
  <2> DEFINE e == StageReport(job[j].attempts)
  <2>1. e \in Events /\ e.attempt = job[j].attempts /\ e.type # "started"
    BY <1>1 DEF StageReport, Events, EventTypes
  <2>2. log'[j] = Append(log[j], e) /\ job'[j].attempts = job[j].attempts
    BY <1>5 DEF ReportsStage
  <2> HIDE DEF e
  <2>3. e.attempt = LastAttempt(log[j]) + (IF e.type = "started" THEN 1 ELSE 0)
    BY <1>1, <2>1
  <2> QED
    BY <1>1, <2>1, <2>2, <2>3, AppendSerial
<1>6. CASE Starts(j) \/ Returns(j) \/ IsAccepted(j) \/ IsCancelled(j)
  <2>1. /\ job'[j].status \in {"running", "queued", "cancelled"}
        /\ job'[j].attempts = job[j].attempts + (IF job'[j].status = "running" THEN 1 ELSE 0)
    <3>1. CASE Starts(j)
      <4>1. job'[j].status = "running" /\ job'[j].attempts = job[j].attempts + 1
        BY <3>1, JobStepFields
      <4> QED
        BY <4>1
    <3>2. CASE Returns(j) \/ IsAccepted(j) \/ IsCancelled(j)
      <4>1. job'[j].status \in {"queued", "cancelled"} /\ job'[j].attempts = job[j].attempts
        BY <3>2, JobStepFields
      <4> QED
        BY <1>1, <4>1
    <3> QED
      BY <1>6, <3>1, <3>2
  <2>2. Reported(j)
    BY <1>6 DEF Starts, Returns, IsAccepted, IsCancelled
  <2> QED
    BY <1>2, <2>1, <2>2
<1>7. ASSUME NEW to \in Statuses, Leaves(j, to)
      PROVE  Serial(log'[j]) /\ LastAttempt(log'[j]) = job'[j].attempts
  <2>1. /\ job'[j].status = to /\ to # "none" /\ to # "running"
        /\ job'[j].attempts = job[j].attempts
    BY <1>7, JobStepFields DEF Leaves
  <2>2. CASE Reported(j)
    BY <1>1, <1>2, <2>1, <2>2
  <2>3. CASE log'[j] = Append(Append(log[j], Confirmation(job'[j])), StatusReport(job'[j]))
    <3> DEFINE c == Confirmation(job'[j])
               e == StatusReport(job'[j])
    <3>1. c \in Events /\ e \in Events
      BY <1>1, <2>1, ReportsAreEvents
    <3>2. /\ c.attempt = job[j].attempts /\ c.type # "started"
          /\ e.attempt = job[j].attempts /\ e.type # "started"
      BY <1>1, <2>1 DEF Confirmation, StatusReport, StatusEvent, JobRows, Statuses, Terminal
    <3>3. log'[j] = Append(Append(log[j], c), e)
      BY <2>3
    <3> HIDE DEF c, e
    <3>4. Serial(Append(log[j], c)) /\ LastAttempt(Append(log[j], c)) = job[j].attempts
      <4>1. c.attempt = LastAttempt(log[j]) + (IF c.type = "started" THEN 1 ELSE 0)
        BY <1>1, <3>2
      <4> QED
        BY <1>1, <3>1, <3>2, <4>1, AppendSerial
    <3>5. Append(log[j], c) \in Seq(Events)
      BY <1>1, <3>1
    <3>6. e.attempt = LastAttempt(Append(log[j], c)) + (IF e.type = "started" THEN 1 ELSE 0)
      BY <1>1, <3>2, <3>4
    <3>7. Serial(log'[j]) /\ LastAttempt(log'[j]) = e.attempt
      BY <3>1, <3>3, <3>4, <3>5, <3>6, AppendSerial
    <3> QED
      BY <2>1, <3>2, <3>7
  <2> QED
    BY <1>7, <2>2, <2>3 DEF Leaves
<1> QED
  BY <1>3, <1>4, <1>5, <1>6, <1>7 DEF JobStep, WorkStep, UserStep

\* The attempts of a job follow each other in its log.
THEOREM LogSerial == Spec => []LogIsSerial
<1> DEFINE Follows == \A j \in Jobs : LogFollows(j)
<1>1. Init => Follows
  <2> SUFFICES ASSUME Init, NEW j \in Jobs PROVE LogFollows(j)
    OBVIOUS
  <2>1. log[j] = << >> /\ job[j].attempts = 0
    BY DEF Init, NoRow
  <2> QED
    BY <2>1 DEF LogFollows, LastAttempt, Serial
<1>2. Inv /\ Follows /\ [Next]_vars => Follows'
  <2> SUFFICES ASSUME Inv, Follows, [Next]_vars, NEW j \in Jobs PROVE LogFollows(j)'
    OBVIOUS
  <2>1. Serial(log'[j]) /\ LastAttempt(log'[j]) = job'[j].attempts
    BY EveryStepIsAJobStep, JobStepFollows
  <2> QED
    BY <2>1 DEF LogFollows
<1>3. Follows => LogIsSerial
  BY DEF LogFollows, Serial, LogIsSerial
<1> HIDE DEF Follows
<1> QED
  BY <1>1, <1>2, <1>3, Invariance, PTL DEF Spec

\* The log ends with the report of the current status, followed by nothing but
\* the stages of a running attempt.
THEOREM LogCorrect == Spec => []LogReportsStatus
<1> DEFINE Tells(events, row) ==
      \E i \in 1 .. Len(events) :
        /\ events[i] = StatusReport(row)
        /\ \A k \in i + 1 .. Len(events) :
             events[k].type = "stage_completed" /\ row.status = "running"
<1>1. Init => LogReportsStatus
  BY DEF Init, LogReportsStatus, NoRow
<1>2. Inv /\ LogReportsStatus /\ [Next]_vars => LogReportsStatus'
  <2> SUFFICES ASSUME Inv, LogReportsStatus, [Next]_vars, NEW j \in Jobs, job'[j].status # "none"
               PROVE  Tells(log'[j], job'[j])
    BY DEF LogReportsStatus
  <2>1. /\ JobStep(j) /\ log[j] \in Seq(Events) /\ job[j] \in JobRows
        /\ job'[j] \in JobRows
    BY EveryStepIsAJobStep, JobStepKeepsRow DEF Inv, TypeOK
  <2>2. ASSUME NEW events \in Seq(Events), log'[j] = Append(events, StatusReport(job'[j]))
        PROVE  Tells(log'[j], job'[j])
    <3> DEFINE n == Len(events)
    <3>1. StatusReport(job'[j]) \in Events
      BY <2>1, ReportsAreEvents
    <3>2. /\ n \in Nat /\ Len(log'[j]) = n + 1
          /\ log'[j][n + 1] = StatusReport(job'[j])
      BY <2>2, <3>1
    <3> QED
      BY <3>2
  <2>3. ASSUME job[j].status # "none", log'[j] = log[j],
               job'[j].status = job[j].status, job'[j].attempts = job[j].attempts
        PROVE  Tells(log'[j], job'[j])
    BY <2>3 DEF LogReportsStatus, StatusReport
  <2>4. CASE Kept(j)
    BY <2>3, <2>4 DEF Kept
  <2>5. CASE Waits(j)
    BY <2>1, <2>3, <2>5, JobStepFields DEF Waits, Open
  <2>6. CASE IsAskedToStop(j)
    BY <2>1, <2>3, <2>6, JobStepFields DEF IsAskedToStop
  <2>7. CASE ReportsStage(j)
    <3> DEFINE e == StageReport(job[j].attempts)
               n == Len(log[j])
    <3>1. /\ job'[j] = job[j] /\ job[j].status = "running" /\ log'[j] = Append(log[j], e)
          /\ e.type = "stage_completed"
      BY <2>7 DEF ReportsStage, StageReport
    <3>2. PICK i \in 1 .. n :
            /\ log[j][i] = StatusReport(job[j])
            /\ \A k \in i + 1 .. n : log[j][k].type = "stage_completed"
      BY <3>1 DEF LogReportsStatus
    <3> HIDE DEF e
    <3>3. /\ n \in Nat /\ Len(log'[j]) = n + 1 /\ log'[j][n + 1] = e
          /\ \A k \in 1 .. n : log'[j][k] = log[j][k]
      BY <2>1, <3>1
    <3>4. i \in 1 .. n + 1 /\ log'[j][i] = StatusReport(job'[j])
      BY <3>1, <3>2, <3>3
    <3>5. ASSUME NEW k \in i + 1 .. n + 1
          PROVE  log'[j][k].type = "stage_completed"
      <4>1. k = n + 1 \/ k \in i + 1 .. n
        BY <3>3
      <4>2. k \in i + 1 .. n => k \in 1 .. n
        BY <3>2, <3>3
      <4> QED
        BY <3>1, <3>2, <3>3, <4>1, <4>2
    <3> QED
      BY <3>1, <3>3, <3>4, <3>5
  <2>8. CASE Starts(j) \/ Returns(j) \/ IsAccepted(j) \/ IsCancelled(j)
    BY <2>1, <2>2, <2>8 DEF Starts, Returns, IsAccepted, IsCancelled, Reported
  <2>9. ASSUME NEW to \in Statuses, Leaves(j, to)
        PROVE  Tells(log'[j], job'[j])
    <3>1. Append(log[j], Confirmation(job'[j])) \in Seq(Events)
      BY <2>1, ReportsAreEvents
    <3> QED
      BY <2>1, <2>2, <2>9, <3>1 DEF Leaves, Reported
  <2> QED
    BY <2>1, <2>4, <2>5, <2>6, <2>7, <2>8, <2>9 DEF JobStep, WorkStep, UserStep
<1> QED
  BY <1>1, <1>2, Invariance, PTL DEF Spec

-----------------------------------------------------------------------------
(***************************************************************************)
(* Refinement: what a step does to each job is what the contract allows.   *)
(***************************************************************************)
\* What the contract sees of a job, and whether it sees it end.
Unseen(j) ==
  /\ ContractState'[j] = ContractState[j]
  /\ job'[j].cancel = job[j].cancel
  /\ (published'[j] # {}) = (published[j] # {})

SeenToEnd(j) ==
  /\ ContractState[j] = "open"
  /\ ContractState'[j] \in Contract!Endings
  /\ job[j].cancel <=> ContractState'[j] = "cancelled"
  /\ job'[j].cancel = job[j].cancel
  /\ (published'[j] # {}) = (ContractState'[j] = "succeeded")

LEMMA ContractStateOf ==
  ASSUME NEW j \in Jobs
  PROVE  /\ ContractState[j] = IF job[j].status \in Open THEN "open" ELSE job[j].status
         /\ ContractState'[j] = IF job'[j].status \in Open THEN "open" ELSE job'[j].status
BY DEF ContractState

LEMMA WorkStepIsSeen ==
  ASSUME Inv, ResultIsOfLatestAttempt, ResultIsOfLatestAttempt', NEW j \in Jobs, WorkStep(j)
  PROVE  Unseen(j) \/ SeenToEnd(j)
<1>1. /\ JobStep(j)
      /\ published[j] # {} <=> job[j].status = "succeeded"
      /\ published'[j] # {} <=> job'[j].status = "succeeded"
  BY DEF JobStep, ResultIsOfLatestAttempt
<1>2. CASE Kept(j) \/ Waits(j) \/ ReportsStage(j)
  <2>1. job'[j].status = job[j].status /\ job'[j].cancel = job[j].cancel
    BY <1>1, <1>2, JobStepFields
  <2> QED
    BY <1>1, <2>1, ContractStateOf DEF Unseen
<1>3. CASE Starts(j) \/ Returns(j)
  <2>1. /\ job[j].status \in Open /\ job'[j].status \in Open /\ job'[j].cancel = job[j].cancel
        /\ job[j].status # "succeeded" /\ job'[j].status # "succeeded"
    BY <1>1, <1>3, JobStepFields DEF Starts, Returns, Open
  <2> QED
    BY <1>1, <2>1, ContractStateOf DEF Unseen
<1>4. ASSUME NEW to \in Statuses, Leaves(j, to)
      PROVE  Unseen(j) \/ SeenToEnd(j)
  <2>1. /\ job[j].status = "running" /\ job'[j].status = to /\ job'[j].cancel = job[j].cancel
        /\ to \in {"succeeded", "retry_wait", "failed", "cancelled", "stale"}
        /\ job[j].cancel <=> to = "cancelled"
    BY <1>1, <1>4, JobStepFields DEF Leaves
  <2>2. CASE to = "retry_wait"
    BY <1>1, <2>1, <2>2, ContractStateOf DEF Unseen, Open
  <2>3. CASE to # "retry_wait"
    BY <1>1, <2>1, <2>3, ContractStateOf DEF SeenToEnd, Open, Contract!Endings
  <2> QED
    BY <2>2, <2>3
<1> QED
  BY <1>2, <1>3, <1>4 DEF WorkStep

LEMMA WorkStepsRefine ==
  ASSUME Inv, ResultIsOfLatestAttempt, ResultIsOfLatestAttempt',
         \A j \in Jobs : WorkStep(j)
  PROVE  Contract!Next \/ UNCHANGED Contract!vars
<1>0. PICK over \in SUBSET Jobs : over = {j \in Jobs : SeenToEnd(j)}
  OBVIOUS
<1>1. \A j \in Jobs : Unseen(j) \/ SeenToEnd(j)
  BY WorkStepIsSeen
<1>2. \A j \in Jobs : SeenToEnd(j) => ContractState'[j] \in Contract!Endings
  BY DEF SeenToEnd
<1>3. CASE over = {}
  <2>1. \A j \in Jobs : Unseen(j)
    BY <1>0, <1>1, <1>3
  <2>2. ContractState' = ContractState
    BY <2>1 DEF Unseen, ContractState
  <2>3. [j \in Jobs |-> job'[j].cancel] = [j \in Jobs |-> job[j].cancel]
    BY <2>1 DEF Unseen
  <2>4. [j \in Jobs |-> published'[j] # {}] = [j \in Jobs |-> published[j] # {}]
    BY <2>1 DEF Unseen
  <2> QED
    BY <2>2, <2>3, <2>4, Zenon DEF Contract!vars
<1>4. CASE over # {}
  <2>1. PICK how \in [over -> Contract!Endings] : \A j \in over : how[j] = ContractState'[j]
    <3>1. [j \in over |-> ContractState'[j]] \in [over -> Contract!Endings]
      BY <1>0, <1>2
    <3> QED
      BY <3>1
  <2>2. \A j \in over : /\ ContractState[j] = "open" /\ how[j] = ContractState'[j]
                        /\ job[j].cancel <=> how[j] = "cancelled"
                        /\ (published'[j] # {}) = (how[j] = "succeeded")
    BY <1>0, <2>1 DEF SeenToEnd
  <2>3. \A j \in Jobs : job'[j].cancel = job[j].cancel
    BY <1>1 DEF Unseen, SeenToEnd
  <2>4. \A j \in Jobs : j \notin over => /\ ContractState'[j] = ContractState[j]
                                       /\ (published'[j] # {}) = (published[j] # {})
    BY <1>0, <1>1 DEF Unseen
  <2>5. DOMAIN how = over
    BY <2>1
  <2>6. \A j \in over : [i \in Jobs |-> job[i].cancel][j] <=> how[j] = "cancelled"
    BY <2>1, <2>2
  <2>7. ContractState' = [j \in Jobs |-> IF j \in DOMAIN how THEN how[j] ELSE ContractState[j]]
    <3>1. \A j \in Jobs : ContractState'[j] = IF j \in over THEN how[j] ELSE ContractState[j]
      BY <2>2, <2>4
    <3>2. ContractState' = [j \in Jobs |-> ContractState'[j]]
      BY DEF ContractState
    <3>3. ContractState' = [j \in Jobs |-> IF j \in over THEN how[j] ELSE ContractState[j]]
      BY <3>1, <3>2, Zenon
    <3> QED
      BY <2>5, <3>3
  <2>8. [j \in Jobs |-> published'[j] # {}]
        = [j \in Jobs |-> IF j \in DOMAIN how THEN how[j] = "succeeded"
                         ELSE [i \in Jobs |-> published[i] # {}][j]]
    BY <2>2, <2>4, <2>5
  <2>9. [j \in Jobs |-> job'[j].cancel] = [j \in Jobs |-> job[j].cancel]
    BY <2>3
  <2>10. Contract!End(how)
    BY <1>4, <2>2, <2>5, <2>6, <2>7, <2>8, <2>9 DEF Contract!End
  <2>11. over \in SUBSET Contract!OpenJobs
    BY <2>2 DEF Contract!OpenJobs
  <2> QED
    BY <2>1, <2>10, <2>11 DEF Contract!Next
<1> QED
  BY <1>3, <1>4

LEMMA UserStepRefines ==
  ASSUME Inv, ResultIsOfLatestAttempt, ResultIsOfLatestAttempt', [Next]_vars, UserNext
  PROVE  Contract!Next
<1>1. PICK k \in Jobs : UserStep(k) /\ \A j \in Jobs \ {k} : Kept(j)
  BY UserStepIsOfOneJob
<1>2. /\ JobStep(k)
      /\ published[k] # {} <=> job[k].status = "succeeded"
      /\ published'[k] # {} <=> job'[k].status = "succeeded"
  BY <1>1 DEF JobStep, ResultIsOfLatestAttempt
<1>3. \A j \in Jobs \ {k} : /\ ContractState'[j] = ContractState[j]
                            /\ job'[j].cancel = job[j].cancel
                            /\ published'[j] = published[j]
  BY <1>1, ContractStateOf DEF Kept
<1>4. published'[k] # {} <=> published[k] # {}
  BY <1>1, <1>2, JobStepFields DEF UserStep, IsAccepted, IsAskedToStop, IsCancelled
<1>5. [j \in Jobs |-> published'[j] # {}] = [j \in Jobs |-> published[j] # {}]
  BY <1>3, <1>4
<1>6. job[k].cancel \in BOOLEAN /\ RowOK(job[k])
  BY DEF Inv, TypeOK, JobRows, RowsOK
<1>7. /\ ContractState = [j \in Jobs |-> ContractState[j]]
      /\ ContractState' = [j \in Jobs |-> ContractState'[j]]
  BY DEF ContractState
<1>8. CASE IsAccepted(k)
  <2>1. /\ ContractState[k] = "none" /\ ContractState'[k] = "open"
        /\ job'[k].cancel = job[k].cancel
    BY <1>2, <1>8, JobStepFields, ContractStateOf DEF IsAccepted, Open
  <2>2. ASSUME NEW j \in Jobs, DedupeKey[j] = DedupeKey[k]
        PROVE  ContractState[j] \notin {"open", "succeeded"}
    <3>1. job[j].status \notin Holding
      BY <1>8, <2>2 DEF IsAccepted, KeyIsHeld
    <3>2. job[j].status \in {"none"} \cup Statuses
      BY DEF Inv, TypeOK, JobRows
    <3> QED
      BY <3>1, <3>2, ContractStateOf DEF Holding, Open, Statuses, Terminal
  <2>3. ContractState' = [ContractState EXCEPT ![k] = "open"]
    BY <1>3, <1>7, <2>1
  <2>4. [j \in Jobs |-> job'[j].cancel] = [j \in Jobs |-> job[j].cancel]
    BY <1>3, <2>1
  <2>5. Contract!Accept(k)
    BY <1>5, <2>1, <2>2, <2>3, <2>4 DEF Contract!Accept
  <2> QED
    BY <2>5 DEF Contract!Next
<1>9. CASE IsAskedToStop(k)
  <2>1. /\ ContractState[k] = "open" /\ ContractState'[k] = "open"
        /\ job'[k].cancel = TRUE /\ ~job[k].cancel
    BY <1>2, <1>9, JobStepFields, ContractStateOf DEF IsAskedToStop, Open
  <2>2. ContractState' = ContractState
    BY <1>3, <1>7, <2>1
  <2>3. [j \in Jobs |-> job'[j].cancel] = [[j \in Jobs |-> job[j].cancel] EXCEPT ![k] = TRUE]
    BY <1>3, <2>1
  <2>4. Contract!Ask(k)
    BY <1>5, <2>1, <2>2, <2>3 DEF Contract!Ask
  <2> QED
    BY <2>4 DEF Contract!Next
<1>10. CASE IsCancelled(k)
  <2>1. /\ ContractState[k] = "open" /\ ContractState'[k] = "cancelled"
        /\ job'[k].cancel = TRUE
    BY <1>2, <1>10, JobStepFields, ContractStateOf DEF IsCancelled, Open
  <2>2. ~job[k].cancel
    BY <1>6, <1>10 DEF IsCancelled, RowOK
  <2>3. ContractState' = [ContractState EXCEPT ![k] = "cancelled"]
    BY <1>3, <1>7, <2>1
  <2>4. [j \in Jobs |-> job'[j].cancel] = [[j \in Jobs |-> job[j].cancel] EXCEPT ![k] = TRUE]
    BY <1>3, <2>1
  <2>5. Contract!CancelAtOnce(k)
    BY <1>5, <2>1, <2>2, <2>3, <2>4 DEF Contract!CancelAtOnce
  <2> QED
    BY <2>5 DEF Contract!Next
<1> QED
  BY <1>1, <1>8, <1>9, <1>10 DEF UserStep

\* The package implements its contract: every job is accepted at most once per
\* free key, ends at most once, with its result or without any, and a request
\* to cancel an open job leaves it no other end.
THEOREM Refinement == Spec => KeepsContract
<1>1. Init => Contract!Init
  <2> SUFFICES ASSUME Init PROVE Contract!Init
    OBVIOUS
  <2>1. \A j \in Jobs : job[j].status = "none" /\ job[j].cancel = FALSE /\ published[j] = {}
    BY DEF Init, NoRow
  <2>2. ContractState = [j \in Jobs |-> "none"]
    BY <2>1 DEF ContractState, Open
  <2>3. [j \in Jobs |-> job[j].cancel] = [j \in Jobs |-> FALSE]
    BY <2>1
  <2>4. [j \in Jobs |-> published[j] # {}] = [j \in Jobs |-> FALSE]
    BY <2>1
  <2> QED
    BY <2>2, <2>3, <2>4 DEF Contract!Init
<1>2. /\ Inv /\ ResultIsOfLatestAttempt /\ ResultIsOfLatestAttempt' /\ [Next]_vars
      => [Contract!Next]_(Contract!vars)
  <2> SUFFICES ASSUME Inv, ResultIsOfLatestAttempt, ResultIsOfLatestAttempt', [Next]_vars
               PROVE  Contract!Next \/ UNCHANGED Contract!vars
    OBVIOUS
  <2>1. CASE UserNext
    BY <2>1, UserStepRefines
  <2>2. CASE ~UserNext
    BY <2>2, OtherStepsAreWork, WorkStepsRefine
  <2> QED
    BY <2>1, <2>2
<1> QED
  BY <1>1, <1>2, Invariance, ResultCorrect, PTL DEF Spec, KeepsContract, Contract!Spec
-----------------------------------------------------------------------------
(***************************************************************************)
(* Each job's log is the feed that JobStream reads.                        *)
(***************************************************************************)
Types(events) == [i \in DOMAIN events |-> events[i].type]

LEMMA AppendTypes ==
  ASSUME NEW events \in Seq(Events), NEW e \in Events
  PROVE  /\ Types(events) \in Seq(EventTypes) /\ e.type \in EventTypes
         /\ Types(Append(events, e)) = Append(Types(events), e.type)
<1>1. e.type \in EventTypes /\ \A i \in DOMAIN events : events[i].type \in EventTypes
  <2>1. \A x \in Events : x.type \in EventTypes
    BY DEF Events
  <2>2. \A i \in DOMAIN events : events[i] \in Events
    OBVIOUS
  <2> QED
    BY <2>1, <2>2
<1>2. Types(events) \in Seq(EventTypes) /\ Len(Types(events)) = Len(events)
  BY <1>1 DEF Types
<1>3. DOMAIN Types(Append(events, e)) = 1 .. Len(events) + 1
  BY DEF Types
<1>4. DOMAIN Append(Types(events), e.type) = 1 .. Len(events) + 1
  BY <1>1, <1>2
<1>5. ASSUME NEW i \in 1 .. Len(events) + 1
      PROVE  Types(Append(events, e))[i] = Append(Types(events), e.type)[i]
  <2>1. CASE i = Len(events) + 1
    BY <1>1, <1>2, <1>3, <2>1 DEF Types
  <2>2. CASE i # Len(events) + 1
    <3>1. i \in 1 .. Len(events)
      BY <2>2
    <3>2. Types(Append(events, e))[i] = events[i].type
      BY <3>1 DEF Types
    <3>3. Append(Types(events), e.type)[i] = Types(events)[i]
      BY <1>1, <1>2, <3>1
    <3> QED
      BY <3>1, <3>2, <3>3 DEF Types
  <2> QED
    BY <2>1, <2>2
<1>6. Append(Types(events), e.type) =
        [i \in 1 .. Len(events) + 1 |-> Append(Types(events), e.type)[i]]
  BY <1>1, <1>2, <1>4
<1>7. Types(Append(events, e)) = [i \in 1 .. Len(events) + 1 |-> Types(Append(events, e))[i]]
  BY <1>3 DEF Types
<1> QED
  BY <1>1, <1>2, <1>5, <1>6, <1>7

\* What a step does to the log of a job is one write of its feed, or nothing:
\* a job that is over is never written to.
LEMMA JobStepWrites ==
  ASSUME Inv, NEW j \in Jobs, JobStep(j)
  PROVE  \/ /\ Types(log'[j]) = Types(log[j])
            /\ job'[j].status \in Terminal <=> job[j].status \in Terminal
         \/ /\ job[j].status \notin Terminal
            /\ \E e \in EventTypes :
                 Types(log'[j]) \in {Append(Types(log[j]), e)}
                   \cup {Append(Append(Types(log[j]), e), f) : f \in EventTypes}
<1>1. /\ log[j] \in Seq(Events) /\ job[j] \in JobRows /\ RowOK(job[j])
      /\ job'[j] \in JobRows
      /\ job[j].attempts \in 0 .. MaxAttempts
  BY JobStepKeepsRow DEF Inv, TypeOK, RowsOK, JobRows
<1>2. ASSUME job[j].status \notin Terminal, job'[j].status # "none", Reported(j)
      PROVE  /\ job[j].status \notin Terminal
             /\ \E e \in EventTypes :
                  Types(log'[j]) \in {Append(Types(log[j]), e)}
                    \cup {Append(Append(Types(log[j]), e), f) : f \in EventTypes}
  <2>1. StatusReport(job'[j]) \in Events
    BY <1>1, <1>2, ReportsAreEvents
  <2>2. Types(log'[j]) = Append(Types(log[j]), StatusReport(job'[j]).type)
    BY <1>1, <1>2, <2>1, AppendTypes DEF Reported
  <2>3. StatusReport(job'[j]).type \in EventTypes
    BY <1>1, <2>1, AppendTypes
  <2> QED
    BY <1>2, <2>2, <2>3
<1>3. CASE Kept(j) \/ Waits(j) \/ IsAskedToStop(j)
  <2>1. log'[j] = log[j] /\ (job'[j].status \in Terminal <=> job[j].status \in Terminal)
    BY <1>3, JobStepFields DEF Kept, Waits, IsAskedToStop
  <2> QED
    BY <2>1
<1>4. CASE ReportsStage(j)
  <2>1. StageReport(job[j].attempts) \in Events
    BY <1>1 DEF StageReport, Events, EventTypes
  <2>2. /\ Types(log'[j]) = Append(Types(log[j]), StageReport(job[j].attempts).type)
        /\ StageReport(job[j].attempts).type \in EventTypes
    BY <1>1, <1>4, <2>1, AppendTypes DEF ReportsStage
  <2>3. job[j].status \notin Terminal
    BY <1>4 DEF ReportsStage, Terminal
  <2> QED
    BY <2>2, <2>3
<1>5. CASE Starts(j) \/ Returns(j) \/ IsAccepted(j) \/ IsCancelled(j)
  <2>1. job'[j].status # "none"
    BY <1>5, JobStepFields
  <2>2. job[j].status \notin Terminal /\ Reported(j)
    BY <1>5 DEF Starts, Returns, IsAccepted, IsCancelled, Terminal
  <2> QED
    BY <1>2, <2>1, <2>2
<1>6. ASSUME NEW to \in Statuses, Leaves(j, to)
      PROVE  /\ job[j].status \notin Terminal
             /\ \E e \in EventTypes :
                  Types(log'[j]) \in {Append(Types(log[j]), e)}
                    \cup {Append(Append(Types(log[j]), e), f) : f \in EventTypes}
  <2>1. job'[j].status = to /\ to # "none" /\ job[j].status \notin Terminal
    BY <1>6, JobStepFields DEF Leaves, Terminal
  <2>2. CASE Reported(j)
    BY <1>2, <2>1, <2>2
  <2>3. CASE log'[j] = Append(Append(log[j], Confirmation(job'[j])), StatusReport(job'[j]))
    <3> DEFINE c == Confirmation(job'[j])
               r == StatusReport(job'[j])
    <3>1. c \in Events /\ r \in Events
      BY <1>1, <2>1, ReportsAreEvents
    <3>2. log'[j] = Append(Append(log[j], c), r)
      BY <2>3
    <3> HIDE DEF c, r
    <3>3. Append(log[j], c) \in Seq(Events)
      BY <1>1, <3>1
    <3>4. /\ Types(Append(log[j], c)) = Append(Types(log[j]), c.type)
          /\ c.type \in EventTypes
      BY <1>1, <3>1, AppendTypes
    <3>5. /\ Types(log'[j]) = Append(Types(Append(log[j], c)), r.type)
          /\ r.type \in EventTypes
      BY <3>1, <3>2, <3>3, AppendTypes
    <3> QED
      BY <2>1, <3>4, <3>5
  <2> QED
    BY <1>6, <2>2, <2>3 DEF Leaves
<1> QED
  BY <1>3, <1>4, <1>5, <1>6 DEF JobStep, WorkStep, UserStep

\* Each job's log grows at its end only, in whole transactions, and is complete
\* once the status is terminal: what stream.py relies on (E19, E30).
THEOREM LogsAreFeeds == Spec => EveryLogIsAFeed
<1>1. Init => \A j \in Jobs : Feed(j)!FeedInit
  <2> SUFFICES ASSUME Init, NEW j \in Jobs PROVE Feed(j)!FeedInit
    OBVIOUS
  <2>1. log[j] = << >> /\ job[j].status = "none"
    BY DEF Init, NoRow
  <2>2. [i \in DOMAIN log[j] |-> log[j][i].type] = << >>
    BY <2>1
  <2>3. (job[j].status \in Terminal) = FALSE
    BY <2>1 DEF Terminal
  <2> QED
    BY <2>2, <2>3 DEF Feed!FeedInit
<1>2. Inv /\ [Next]_vars
        => [\A j \in Jobs : UNCHANGED Feed(j)!feedVars \/ Feed(j)!FeedNext]_vars
  <2> SUFFICES ASSUME Inv, [Next]_vars, NEW j \in Jobs
               PROVE  UNCHANGED Feed(j)!feedVars \/ Feed(j)!FeedNext
    OBVIOUS
  <2>1. JobStep(j)
    BY EveryStepIsAJobStep
  <2>2. CASE /\ Types(log'[j]) = Types(log[j])
             /\ job'[j].status \in Terminal <=> job[j].status \in Terminal
    <3> DEFINE over == job[j].status \in Terminal
               overNext == job'[j].status \in Terminal
    <3>0. over \in BOOLEAN /\ overNext \in BOOLEAN /\ (over <=> overNext)
      BY <2>2, SMT DEF Terminal
    <3> HIDE DEF over, overNext
    <3>1. over = overNext
      BY <3>0, SMT
    <3> QED
      BY <2>2, <3>1 DEF Feed!feedVars, Types
  <2>3. CASE /\ job[j].status \notin Terminal
             /\ \E e \in EventTypes :
                  Types(log'[j]) \in {Append(Types(log[j]), e)}
                    \cup {Append(Append(Types(log[j]), e), f) : f \in EventTypes}
    <3>1. (job'[j].status \in Terminal) \in BOOLEAN
      BY SMT DEF Terminal
    <3> QED
      BY <2>3, <3>1 DEF Feed!FeedNext, Feed!Write, Types
  <2> QED
    BY <2>1, <2>2, <2>3, JobStepWrites
<1> QED
  BY <1>1, <1>2, Invariance, PTL DEF Spec, EveryLogIsAFeed

-----------------------------------------------------------------------------
(***************************************************************************)
(* A queued job is always on its way to a worker when nothing is lost.     *)
(* Announced is not inductive: two dispatchers may both have published     *)
(* rows of the job, and each would be justified by the row that the other  *)
(* is about to remove.  A row only counts while no dispatcher has it       *)
(* published; from then on the message it stands for does.                 *)
(***************************************************************************)
Unpublished(j, s) ==
  outbox[j][s] # "none" /\ \A d \in Dispatchers : progress[d][<<j, s>>] # "published"

Received(j) == \E w \in Workers : worker[w].phase = "received" /\ worker[w].job = j

OnItsWay(j) == (\E s \in Slots : Unpublished(j, s)) \/ broker[j] > 0 \/ Received(j)

QueuedIsOnItsWay == \A j \in Jobs : job[j].status = "queued" => OnItsWay(j)

\* A new row of the outbox is not in the hands of any dispatcher.
LEMMA NewRowIsUnpublished ==
  ASSUME Inv, NEW j \in Jobs, FreeSlots(j) # {}, outbox'[j] = WithNewRow(j), progress' = progress
  PROVE  \E s \in Slots : Unpublished(j, s)'
<1> DEFINE s == CHOOSE x \in FreeSlots(j) : TRUE
<1>1. s \in FreeSlots(j)
  OBVIOUS
<1>2. s \in Slots /\ \A d \in Dispatchers : progress[d][<<j, s>>] = "none"
  BY <1>1 DEF FreeSlots
<1>3. outbox'[j] = [outbox[j] EXCEPT ![s] = "due"]
  BY DEF WithNewRow
<1> HIDE DEF s
<1>4. outbox'[j][s] = "due"
  BY <1>2, <1>3 DEF Inv, TypeOK
<1> QED
  BY <1>2, <1>4 DEF Unpublished

LEMMA DispatchersKeepOnItsWay ==
  ASSUME Inv, NEW d \in Dispatchers,
         DispatcherStep(d) \/ DispatcherDies(d), NEW j \in Jobs, OnItsWay(j)
  PROVE  OnItsWay(j)'
<1>1. /\ outbox \in [Jobs -> [Slots -> RowStates]]
      /\ broker \in [Jobs -> 0 .. MaxMessages] /\ MaxMessages \in Nat \ {0}
      /\ progress \in [Dispatchers -> [Rows -> Progress]]
  BY BoundsAssumption DEF Inv, TypeOK
<1>2. worker' = worker
  BY DEF DispatcherStep, DispatchRead, Publish, PublishFails, Mark, MarkFails, DispatcherDies
<1>3. ASSUME broker[j] > 0, broker'[j] > 0 PROVE OnItsWay(j)'
  BY <1>3 DEF OnItsWay
<1>4. ASSUME broker' = broker, Received(j) \/ broker[j] > 0 PROVE OnItsWay(j)'
  BY <1>2, <1>4 DEF OnItsWay, Received
<1>5. ASSUME NEW s \in Slots, Unpublished(j, s), outbox'[j][s] # "none",
             progress'[d][<<j, s>>] # "published",
             \A e \in Dispatchers \ {d} : progress'[e] = progress[e]
      PROVE  OnItsWay(j)'
  BY <1>5 DEF OnItsWay, Unpublished
<1>6. \A s \in Slots : <<j, s>> \in Rows
  BY DEF Rows
<1>7. CASE \E scope \in Scopes : DispatchRead(d, scope)
  <2>1. /\ outbox' = outbox /\ broker' = broker
        /\ \A s \in Slots : progress'[d][<<j, s>>] # "published"
        /\ \A e \in Dispatchers \ {d} : progress'[e] = progress[e]
    BY <1>1, <1>6, <1>7 DEF DispatchRead
  <2> QED
    BY <1>4, <1>5, <2>1 DEF OnItsWay, Unpublished
<1>8. CASE DispatcherDies(d)
  <2>1. /\ outbox' = outbox /\ broker' = broker
        /\ \A s \in Slots : progress'[d][<<j, s>>] # "published"
        /\ \A e \in Dispatchers \ {d} : progress'[e] = progress[e]
    BY <1>1, <1>6, <1>8 DEF DispatcherDies
  <2> QED
    BY <1>4, <1>5, <2>1 DEF OnItsWay, Unpublished
<1>9. ASSUME NEW r \in Rows, NEW k \in Jobs, NEW s \in Slots, r = <<k, s>>,
             Publish(d, r) \/ PublishFails(d, r)
      PROVE  OnItsWay(j)'
  <2>1. outbox' = outbox /\ broker' \in {broker, WithMessage(k)}
    BY <1>9 DEF Publish, PublishFails
  <2>2. broker'[j] >= broker[j] /\ (broker' = WithMessage(k) /\ k = j => broker'[j] > 0)
    BY <1>1, <2>1 DEF WithMessage
  <2>3. broker[j] \in Nat /\ broker'[j] \in Nat
    BY <1>1, <2>1 DEF WithMessage
  <2>4. CASE broker[j] > 0 \/ broker'[j] > 0
    BY <2>2, <2>3, <2>4 DEF OnItsWay
  <2>5. CASE Received(j)
    BY <1>2, <2>5 DEF OnItsWay, Received
  <2>6. ASSUME NEW x \in Slots, Unpublished(j, x), ~(broker'[j] > 0)
        PROVE  OnItsWay(j)'
    <3>1. \A e \in Dispatchers \ {d} : progress'[e] = progress[e]
      BY <1>1, <1>9 DEF Publish, PublishFails
    <3>2. progress'[d][<<j, x>>] # "published"
      <4>1. CASE <<j, x>> = r
        <5>1. ~ Publish(d, r)
          BY <1>9, <2>2, <2>6, <4>1 DEF Publish
        <5> QED
          BY <1>1, <1>9, <4>1, <5>1 DEF PublishFails
      <4>2. CASE <<j, x>> # r
        <5>1. progress'[d][<<j, x>>] = progress[d][<<j, x>>]
          BY <1>1, <1>6, <1>9, <4>2 DEF Publish, PublishFails
        <5> QED
          BY <2>6, <5>1 DEF Unpublished
      <4> QED
        BY <4>1, <4>2
    <3> QED
      BY <1>5, <2>1, <2>6, <3>1, <3>2 DEF Unpublished
  <2> QED
    BY <2>4, <2>5, <2>6 DEF OnItsWay
<1>10. ASSUME NEW r \in Rows, NEW k \in Jobs, NEW s \in Slots, r = <<k, s>>,
              Mark(d, r) \/ MarkFails(d, r)
       PROVE  OnItsWay(j)'
  <2>1. /\ broker' = broker
        /\ progress' = [progress EXCEPT ![d][r] = "none"]
        /\ outbox' \in {outbox, [outbox EXCEPT ![k][s] = Marked(outbox[k][s], progress[d][r])]}
    BY <1>10 DEF Mark, MarkFails
  <2>2. ASSUME NEW x \in Slots, Unpublished(j, x) PROVE OnItsWay(j)'
    <3>1. progress[d][<<j, x>>] # "published" /\ outbox[j][x] # "none"
      BY <2>2 DEF Unpublished
    <3>2. \A e \in Dispatchers \ {d} : progress'[e] = progress[e]
      BY <1>1, <2>1
    <3>3. progress'[d][<<j, x>>] # "published"
      BY <1>1, <1>6, <2>1, <3>1
    <3>4. outbox'[j][x] # "none"
      <4>1. CASE j = k /\ x = s
        <5>1. Marked(outbox[k][s], progress[d][r]) = "backoff"
          BY <1>10, <3>1, <4>1 DEF Marked
        <5> QED
          BY <1>1, <2>1, <3>1, <4>1, <5>1
      <4>2. CASE ~(j = k /\ x = s)
        BY <1>1, <2>1, <3>1, <4>2
      <4> QED
        BY <4>1, <4>2
    <3> QED
      BY <1>5, <2>2, <3>2, <3>3, <3>4
  <2> QED
    BY <1>4, <2>1, <2>2 DEF OnItsWay
<1>11. \A r \in Rows : \E k \in Jobs, s \in Slots : r = <<k, s>>
  BY DEF Rows
<1> QED
  BY <1>7, <1>8, <1>9, <1>10, <1>11 DEF DispatcherStep

\* A worker's steps: only a claim takes away what announces a job, and then the
\* job is not queued any more.
LEMMA WorkersKeepOnItsWay ==
  ASSUME Inv, NEW w \in Workers, NEW stopping \in {"stale", "retry", "fail"},
         WorkerStep(w) \/ Checkpoint(w) \/ StageCompleted(w)
           \/ Heartbeat(w) \/ Raise(w, stopping),
         NEW j \in Jobs, job[j].status = "queued" => OnItsWay(j)
  PROVE  job'[j].status = "queued" => OnItsWay(j)'
<1>1. /\ job \in [Jobs -> JobRows] /\ worker \in [Workers -> Attempts]
      /\ worker[w].phase # "idle" => worker[w].job \in Jobs
  BY DEF Inv, TypeOK, AttemptsOK, AttemptOK
<1>2. UNCHANGED <<outbox, broker, progress>>
  BY DEF WorkerStep, Claim, HandlerReturns, Commit, Settle, SettleUnfinished, SettleAttempt,
         FinishStale, Checkpoint, StageCompleted, Heartbeat, Raise
<1>3. \A k \in Jobs : \A to \in Statuses :
        Move(job[k], to) \in JobRows /\ Move(job[k], to).status = to
         /\ Release(job[k], to).status = to
  BY <1>1, MoveRow, ReleaseRow
<1>4. ASSUME NEW k \in Jobs, NEW row, row.status # "queued", job' = [job EXCEPT ![k] = row]
      PROVE  job'[j].status = "queued" => job[j].status = "queued"
  BY <1>1, <1>4
<1>5. ASSUME NEW retryable \in BOOLEAN, SettleAttempt(w, retryable), worker[w].phase # "idle"
      PROVE  job'[j].status = "queued" => job[j].status = "queued"
  <2>1. SettledStatus(job[worker[w].job], retryable) \in {"cancelled", "retry_wait", "failed"}
    BY <1>1, <1>5, SettledRow
  <2>2. Settled(job[worker[w].job], retryable).status # "queued"
    BY <1>1, <1>3, <1>5, <2>1 DEF Settled, Statuses, Terminal
  <2> QED
    BY <1>1, <1>4, <1>5, <2>2 DEF SettleAttempt
<1>6. CASE Claim(w)
  <2>1. CASE Claimable(worker[w].job)
    <3> DEFINE k == worker[w].job
               row == [Move(job[k], "running") EXCEPT !.attempts = @ + 1,
                                              !.lease = job[k].attempts + 1]
    <3>1. k \in Jobs /\ "running" \in Statuses
      BY <1>1, <1>6 DEF Claim, Statuses
    <3>2. row.status = "running"
      BY <1>3, <3>1 DEF JobRows
    <3>3. job' = [job EXCEPT ![k] = row]
      BY <1>6, <2>1 DEF Claim
    <3> HIDE DEF row
    <3>4. j # k => job'[j] = job[j]
      BY <1>1, <3>1, <3>3
    <3>5. j = k => job'[j].status # "queued"
      BY <1>1, <3>2, <3>3
    <3>6. \A v \in Workers : v # w => worker'[v] = worker[v]
      BY <1>1, <1>6, <2>1 DEF Claim
    <3> QED
      BY <1>2, <3>4, <3>5, <3>6 DEF OnItsWay, Unpublished, Received
  <2>2. CASE ~Claimable(worker[w].job)
    <3>1. job' = job /\ \A v \in Workers : v # w => worker'[v] = worker[v]
      BY <1>1, <1>6, <2>2 DEF Claim, Finish
    <3> QED
      BY <1>2, <2>2, <3>1 DEF OnItsWay, Unpublished, Received, Claimable
  <2> QED
    BY <2>1, <2>2
<1>7. CASE ~Claim(w)
  <2>1. worker[w].phase \in Running
    BY <1>7 DEF WorkerStep, HandlerReturns, Commit, Settle, SettleUnfinished, FinishStale,
            Checkpoint,
                StageCompleted, Heartbeat, Raise, Running, Ending
  <2>2. worker[w].phase # "received" /\ worker[w].phase # "idle" /\ worker[w].job \in Jobs
    BY <1>1, <2>1 DEF Running, Ending
  <2>3. \A v \in Workers : v # w => worker'[v] = worker[v]
    BY <1>1, <1>7 DEF WorkerStep, HandlerReturns, Commit, Settle, SettleUnfinished,
            SettleAttempt, FinishStale,
                      Checkpoint, StageCompleted, Heartbeat, Raise, Goto, Finish, Interrupted
  <2>4. job'[j].status = "queued" => job[j].status = "queued"
    <3>1. CASE HandlerReturns(w) \/ Checkpoint(w) \/ StageCompleted(w) \/ Raise(w, stopping)
      BY <3>1 DEF HandlerReturns, Checkpoint, StageCompleted, Raise, jobVars
    <3>2. CASE Heartbeat(w)
      <4>1. job' = job \/ job' = [job EXCEPT ![worker[w].job].due = FALSE]
        BY <3>2 DEF Heartbeat
      <4> QED
        BY <1>1, <2>2, <4>1 DEF JobRows
    <3>3. CASE Commit(w)
      <4>1. job' = job
             \/ job' = [job EXCEPT ![worker[w].job] = Release(job[worker[w].job], "succeeded")]
        BY <3>3 DEF Commit, jobVars
      <4> QED
        BY <1>3, <1>4, <2>2, <4>1 DEF Statuses, Terminal
    <3>4. CASE FinishStale(w)
      <4>1. job' = job
             \/ job' = [job EXCEPT ![worker[w].job] = Release(job[worker[w].job], "stale")]
        BY <3>4 DEF FinishStale
      <4> QED
        BY <1>3, <1>4, <2>2, <4>1 DEF Statuses, Terminal
    <3>5. CASE Settle(w) \/ SettleUnfinished(w)
      BY <1>5, <2>2, <3>5 DEF Settle, SettleUnfinished
    <3> QED
      BY <1>7, <3>1, <3>2, <3>3, <3>4, <3>5 DEF WorkerStep
  <2> QED
    BY <1>2, <2>2, <2>3, <2>4 DEF OnItsWay, Unpublished, Received
<1> QED
  BY <1>6, <1>7

LEMMA LosslessKeepsOnItsWay ==
  ASSUME Inv, [LosslessNext]_vars, NEW j \in Jobs, job[j].status = "queued" => OnItsWay(j)
  PROVE  job'[j].status = "queued" => OnItsWay(j)'
<1>1. /\ job \in [Jobs -> JobRows] /\ worker \in [Workers -> Attempts]
      /\ outbox \in [Jobs -> [Slots -> RowStates]]
      /\ broker \in [Jobs -> 0 .. MaxMessages] /\ MaxMessages \in Nat
  BY BoundsAssumption DEF Inv, TypeOK
<1>2. ASSUME job'[j].status = "queued" => job[j].status = "queued",
             outbox'[j] = outbox[j], UNCHANGED <<broker, worker, progress>>
      PROVE  job'[j].status = "queued" => OnItsWay(j)'
  BY <1>2 DEF OnItsWay, Unpublished, Received
<1>3. ASSUME FreeSlots(j) # {}, outbox'[j] = WithNewRow(j), progress' = progress
      PROVE  OnItsWay(j)'
  BY <1>3, NewRowIsUnpublished DEF OnItsWay
<1>4. ASSUME NEW k \in Jobs, Submit(k)
      PROVE  job'[j].status = "queued" => OnItsWay(j)'
  <2>1. CASE j = k
    BY <1>1, <1>3, <1>4, <2>1 DEF Submit
  <2>2. CASE j # k
    BY <1>1, <1>2, <1>4, <2>2 DEF Submit
  <2> QED
    BY <2>1, <2>2
<1>5. ASSUME NEW k \in Jobs, Cancel(k, job[k].revision)
      PROVE  job'[j].status = "queued" => OnItsWay(j)'
  <2> DEFINE moved == Move(job[k], "cancelled")
             row == [moved EXCEPT !.cancel = TRUE]
  <2>1. "cancelled" \in Statuses /\ job[k] \in JobRows
    BY <1>1 DEF Statuses, Terminal
  <2>2. moved \in JobRows /\ moved.status = "cancelled"
    BY <2>1, MoveRow
  <2>3. row.status = "cancelled"
    <3> HIDE DEF moved
    <3> QED
      BY <2>2 DEF JobRows
  <2>4. CASE job[k].status # "running"
    <3>1. job' = [job EXCEPT ![k] = row]
      BY <1>5, <2>4 DEF Cancel
    <3> HIDE DEF row
    <3>2. job'[j].status = "queued" => job[j].status = "queued"
      BY <1>1, <2>3, <3>1
    <3> QED
      BY <1>2, <1>5, <3>2 DEF Cancel
  <2>5. CASE job[k].status = "running"
    <3>1. job' = [job EXCEPT ![k].cancel = TRUE, ![k].revision = @ + 1]
      BY <1>5, <2>5 DEF Cancel
    <3>2. job'[j].status = "queued" => job[j].status = "queued"
      BY <1>1, <3>1 DEF JobRows
    <3> QED
      BY <1>2, <1>5, <3>2 DEF Cancel
  <2> QED
    BY <2>4, <2>5
<1>6. ASSUME NEW d \in Dispatchers, DispatcherStep(d) \/ DispatcherDies(d)
      PROVE  job'[j].status = "queued" => OnItsWay(j)'
  <2>1. job' = job
    BY <1>6 DEF DispatcherStep, DispatchRead, Publish, PublishFails, Mark, MarkFails,
            DispatcherDies, jobVars
  <2> QED
    BY <1>6, <2>1, DispatchersKeepOnItsWay
<1>7. ASSUME NEW w \in Workers, NEW k \in Jobs, Receive(w, k)
      PROVE  job'[j].status = "queued" => OnItsWay(j)'
  <2>1. job' = job /\ outbox' = outbox /\ progress' = progress
    BY <1>7 DEF Receive, jobVars
  <2>2. /\ worker'[w] = [Idle EXCEPT !.phase = "received", !.job = k]
        /\ \A v \in Workers : v # w => worker'[v] = worker[v]
        /\ worker[w].phase = "idle"
    BY <1>1, <1>7 DEF Receive
  <2>3. worker'[w].phase = "received" /\ worker'[w].job = k
    BY <2>2 DEF Idle
  <2>4. CASE j = k
    BY <2>3, <2>4 DEF OnItsWay, Received
  <2>5. CASE j # k
    <3>1. broker'[j] = broker[j]
      BY <1>1, <1>7, <2>5 DEF Receive
    <3> QED
      BY <2>1, <2>2, <3>1 DEF OnItsWay, Unpublished, Received
  <2> QED
    BY <2>4, <2>5
<1>8. CASE Recover
  <2>1. /\ job'[j] = Recovered(j) /\ UNCHANGED <<broker, worker, progress>>
        /\ outbox'[j] = IF RetryDue(j) \/ Stuck(j) THEN WithNewRow(j) ELSE outbox[j]
    BY <1>1, <1>8 DEF Recover
  <2>2. CASE RetryDue(j) \/ Stuck(j)
    BY <1>3, <2>1, <2>2 DEF RetryDue, Stuck
  <2>3. CASE ~RetryDue(j) /\ ~Stuck(j)
    <3>1. CASE LeaseExpired(j)
      <4>1. SettledStatus(job[j], TRUE) \in {"cancelled", "retry_wait", "failed"}
        BY <1>1, SettledRow
      <4>2. Settled(job[j], TRUE).status # "queued"
        BY <1>1, <4>1, ReleaseRow DEF Settled, Statuses, Terminal
      <4> QED
        BY <2>1, <3>1, <4>2 DEF Recovered, LeaseExpired, RetryDue, Stuck
    <3>2. CASE ~LeaseExpired(j)
      <4>1. job'[j] = job[j]
        BY <2>1, <2>3, <3>2 DEF Recovered
      <4> QED
        BY <1>2, <2>1, <2>3, <4>1
    <3> QED
      BY <3>1, <3>2
  <2> QED
    BY <2>2, <2>3
<1>9. ASSUME NEW k \in Jobs, DeadlinePasses(k)
      PROVE  job'[j].status = "queued" => OnItsWay(j)'
  <2>1. job'[j].status = job[j].status
    BY <1>1, <1>9 DEF DeadlinePasses, JobRows
  <2> QED
    BY <1>2, <1>9, <2>1 DEF DeadlinePasses
<1>10. ASSUME NEW k \in Jobs, NEW s \in Slots, BackoffPasses(k, s)
       PROVE  job'[j].status = "queued" => OnItsWay(j)'
  <2>1. UNCHANGED <<job, broker, worker, progress>>
    BY <1>10 DEF BackoffPasses, jobVars
  <2>2. \A x \in Slots : outbox[j][x] # "none" => outbox'[j][x] # "none"
    BY <1>1, <1>10 DEF BackoffPasses
  <2> QED
    BY <2>1, <2>2 DEF OnItsWay, Unpublished, Received
<1>11. CASE UNCHANGED vars
  BY <1>2, <1>11 DEF vars
<1>12. ASSUME NEW w \in Workers, NEW stopping \in {"stale", "retry", "fail"},
              WorkerStep(w) \/ Checkpoint(w) \/ StageCompleted(w)
                \/ Heartbeat(w) \/ Raise(w, stopping)
       PROVE  job'[j].status = "queued" => OnItsWay(j)'
  BY <1>12, WorkersKeepOnItsWay
<1>13. "stale" \in {"stale", "retry", "fail"}
  OBVIOUS
<1> QED
  BY <1>4, <1>5, <1>6, <1>7, <1>8, <1>9, <1>10, <1>11, <1>12, <1>13 DEF LosslessNext

\* In a run in which nothing is lost every queued job is announced, whatever the
\* dispatchers, failures of the broker and marks that are given up do to its rows.
THEOREM QueuedStaysAnnounced == LosslessSpec => []QueuedIsAnnounced
<1>1. Init => QueuedIsOnItsWay
  <2> SUFFICES ASSUME Init, NEW j \in Jobs PROVE job[j].status # "queued"
    BY DEF QueuedIsOnItsWay
  <2> QED
    BY DEF Init, NoRow
<1>2. Inv /\ QueuedIsOnItsWay /\ [LosslessNext]_vars => QueuedIsOnItsWay'
  <2> SUFFICES ASSUME Inv, QueuedIsOnItsWay, [LosslessNext]_vars, NEW j \in Jobs
               PROVE  job'[j].status = "queued" => OnItsWay(j)'
    BY DEF QueuedIsOnItsWay
  <2> QED
    BY LosslessKeepsOnItsWay DEF QueuedIsOnItsWay
<1>3. QueuedIsOnItsWay => QueuedIsAnnounced
  BY DEF QueuedIsOnItsWay, OnItsWay, Unpublished, Received, QueuedIsAnnounced, Announced
<1>4. Inv /\ [LosslessNext]_vars => Inv'
  BY NextInv DEF Next
<1> QED
  BY <1>1, <1>2, <1>3, <1>4, InitInv, PTL DEF LosslessSpec

-----------------------------------------------------------------------------
(***************************************************************************)
(* JobStream, for any feed, any batch and any number of connections that   *)
(* break.  The proof rests on one idea: while a connection is up, the      *)
(* cursor of the server is the number of events that were received or are  *)
(* on the wire, so that what is sent next is what is missing.              *)
(***************************************************************************)
\* What is received and what is on the wire are consecutive pieces of the feed.
InOrder ==
  /\ \A i \in 1 .. Len(received) : received[i] = i
  /\ \A i \in 1 .. Len(wire) : wire[i] = Len(received) + i

CursorIsNext ==
  /\ conn # "closed" => cursor = Len(received) + Len(wire)
  /\ conn = "closed" => wire = << >>

\* A batch is ahead of the cursor, and one that was not full and was read after
\* the job had finished reached the end of the feed.
BatchOK ==
  conn = "open" /\ pc = "yield" =>
    /\ cursor <= upto
    /\ Exhausted => finished /\ upto = Len(feed)

AllSent == done => finished /\ Len(received) + Len(wire) = Len(feed)

StreamInv == StreamTypeOK /\ InOrder /\ CursorIsNext /\ BatchOK /\ AllSent

-----------------------------------------------------------------------------
\* Numbers of events of a feed stay numbers of events of a longer one.
LEMMA LongerFeed ==
  ASSUME NEW m \in Nat, NEW n \in Nat, m <= n, NEW s \in Seq(1 .. m)
  PROVE  s \in Seq(1 .. n)
<1>1. \A i \in 1 .. Len(s) : s[i] \in 1 .. n
  <2>1. \A i \in 1 .. Len(s) : s[i] \in 1 .. m
    OBVIOUS
  <2> QED
    BY <2>1
<1>2. s = [i \in 1 .. Len(s) |-> s[i]] /\ Len(s) \in Nat
  OBVIOUS
<1> QED
  BY <1>1, <1>2

\* The Last-Event-ID is the number of events the browser has.
LEMMA LastIsCount ==
  ASSUME StreamTypeOK, InOrder
  PROVE  LastEventId = Len(received) /\ LastEventId \in 0 .. Len(feed)
<1>1. /\ received \in Seq(1 .. Len(feed)) /\ Len(feed) \in Nat /\ Len(received) \in Nat
  BY DEF StreamTypeOK
<1>2. CASE received = << >>
  BY <1>1, <1>2 DEF LastEventId
<1>3. CASE received # << >>
  <2>1. Len(received) \in 1 .. Len(received)
    BY <1>1, <1>3
  <2>2. received[Len(received)] = Len(received) /\ received[Len(received)] \in 1 .. Len(feed)
    BY <1>1, <2>1 DEF InOrder
  <2> QED
    BY <1>3, <2>2 DEF LastEventId
<1> QED
  BY <1>2, <1>3

LEMMA WriteKeeps ==
  ASSUME StreamInv, Write, UNCHANGED reader
  PROVE  StreamInv'
<1>1. /\ feed \in Seq(Event) /\ finished = FALSE /\ finished' \in BOOLEAN
      /\ UNCHANGED <<conn, pc, cursor, upto, full, ending, wire, received, done>>
  BY DEF StreamInv, StreamTypeOK, Write, reader
<1>2. feed' \in Seq(Event) /\ Len(feed') >= Len(feed)
  <2>1. PICK e \in Event : feed' \in {Append(feed, e)}
                                      \cup {Append(Append(feed, e), f) : f \in Event}
    BY DEF Write
  <2>2. CASE feed' = Append(feed, e)
    BY <1>1, <2>2
  <2>3. ASSUME NEW f \in Event, feed' = Append(Append(feed, e), f)
        PROVE  feed' \in Seq(Event) /\ Len(feed') >= Len(feed)
    <3>1. Append(feed, e) \in Seq(Event) /\ Len(Append(feed, e)) = Len(feed) + 1
      BY <1>1
    <3> QED
      BY <1>1, <2>3, <3>1
  <2> QED
    BY <2>1, <2>2, <2>3
<1>3. Len(feed) \in Nat /\ Len(feed') \in Nat
  BY <1>1, <1>2
<1>4. wire' \in Seq(1 .. Len(feed')) /\ received' \in Seq(1 .. Len(feed'))
  BY <1>1, <1>2, <1>3, LongerFeed DEF StreamInv, StreamTypeOK
<1>5. StreamTypeOK'
  BY <1>1, <1>2, <1>3, <1>4 DEF StreamInv, StreamTypeOK
<1>6. InOrder' /\ CursorIsNext'
  BY <1>1 DEF StreamInv, InOrder, CursorIsNext
<1>7. BatchOK' /\ AllSent'
  BY <1>1 DEF StreamInv, BatchOK, AllSent, Exhausted
<1> QED
  BY <1>5, <1>6, <1>7 DEF StreamInv

LEMMA PollKeeps ==
  ASSUME StreamInv, Poll
  PROVE  StreamInv'
<1>1. /\ Len(feed) \in Nat /\ cursor \in 0 .. Len(feed) /\ Batch \in Nat \ {0}
      /\ conn = "open"
      /\ UNCHANGED <<feed, finished, conn, cursor, wire, received, done>>
  BY BatchAssumption DEF StreamInv, StreamTypeOK, Poll
<1>2. /\ PollEnd(cursor) \in 0 .. Len(feed) /\ cursor <= PollEnd(cursor)
      /\ PollEnd(cursor) - cursor # Batch => PollEnd(cursor) = Len(feed)
  BY <1>1 DEF PollEnd, Lesser
<1>3. StreamTypeOK'
  BY <1>1, <1>2 DEF StreamInv, StreamTypeOK, Poll
<1>4. InOrder' /\ CursorIsNext' /\ AllSent'
  BY <1>1 DEF StreamInv, InOrder, CursorIsNext, AllSent
<1>5. PollEnd(cursor) - cursor = Batch => full' = TRUE
  <2> SUFFICES ASSUME PollEnd(cursor) - cursor = Batch PROVE full' = TRUE
    OBVIOUS
  <2>1. (PollEnd(cursor) - cursor = Batch) = TRUE
    BY Zenon
  <2> QED
    BY <2>1 DEF Poll
<1>6. BatchOK'
  BY <1>1, <1>2, <1>5 DEF Poll, BatchOK, Exhausted
<1> QED
  BY <1>3, <1>4, <1>6 DEF StreamInv

LEMMA YieldKeeps ==
  ASSUME StreamInv, Yield
  PROVE  StreamInv'
<1>1. /\ Len(feed) \in Nat /\ cursor \in 0 .. Len(feed) /\ upto \in 0 .. Len(feed)
      /\ cursor < upto /\ conn = "open" /\ pc = "yield" /\ cursor = Len(received) + Len(wire)
      /\ wire \in Seq(1 .. Len(feed)) /\ received \in Seq(1 .. Len(feed))
      /\ wire' = Append(wire, cursor + 1) /\ cursor' = cursor + 1
      /\ UNCHANGED <<feed, finished, conn, pc, upto, full, ending, received, done>>
  BY DEF StreamInv, StreamTypeOK, CursorIsNext, Yield
<1>2. cursor + 1 \in 1 .. Len(feed)
  BY <1>1
<1>3. wire' \in Seq(1 .. Len(feed)) /\ Len(wire') = Len(wire) + 1
  BY <1>1, <1>2
<1>4. StreamTypeOK'
  BY <1>1, <1>2, <1>3 DEF StreamInv, StreamTypeOK
<1>5. ASSUME NEW i \in 1 .. Len(wire')
      PROVE  wire'[i] = Len(received) + i
  <2>1. Len(wire) \in Nat /\ Len(received) \in Nat
    BY <1>1
  <2>2. CASE i = Len(wire) + 1
    BY <1>1, <2>1, <2>2
  <2>3. CASE i # Len(wire) + 1
    <3>1. i \in 1 .. Len(wire)
      BY <1>3, <2>1, <2>3
    <3>2. wire'[i] = wire[i]
      BY <1>1, <3>1
    <3> QED
      BY <3>1, <3>2 DEF StreamInv, InOrder
  <2> QED
    BY <2>2, <2>3
<1>6. InOrder' /\ CursorIsNext'
  BY <1>1, <1>3, <1>5 DEF StreamInv, InOrder, CursorIsNext
<1>7. BatchOK'
  BY <1>1 DEF StreamInv, BatchOK, Exhausted
<1>8. AllSent'
  <2>1. Len(wire) \in Nat /\ Len(received) \in Nat
    BY <1>1
  <2>2. done = FALSE
    BY <1>1, <2>1 DEF StreamInv, StreamTypeOK, AllSent
  <2> QED
    BY <1>1, <2>2 DEF AllSent
<1> QED
  BY <1>4, <1>6, <1>7, <1>8 DEF StreamInv

LEMMA DeliverKeeps ==
  ASSUME StreamInv, Deliver
  PROVE  StreamInv'
<1> DEFINE n == Len(feed)
<1>1. /\ n \in Nat /\ wire \in Seq(1 .. n) /\ received \in Seq(1 .. n) /\ wire # << >>
      /\ received' = Append(received, Head(wire)) /\ wire' = Tail(wire)
      /\ UNCHANGED <<feed, finished, conn, pc, cursor, upto, full, ending, done>>
  BY DEF StreamInv, StreamTypeOK, Deliver
<1>2. /\ Len(wire) \in Nat \ {0} /\ Len(received) \in Nat
      /\ Head(wire) = wire[1] /\ Head(wire) \in 1 .. n
      /\ wire' \in Seq(1 .. n) /\ Len(wire') = Len(wire) - 1
      /\ \A i \in 1 .. Len(wire) - 1 : wire'[i] = wire[i + 1]
  BY <1>1
<1>3. Head(wire) = Len(received) + 1
  BY <1>2 DEF StreamInv, InOrder
<1>4. received' \in Seq(1 .. n) /\ Len(received') = Len(received) + 1
  BY <1>1, <1>2
<1>5. ASSUME NEW i \in 1 .. Len(received')
      PROVE  received'[i] = i
  BY <1>1, <1>2, <1>3, <1>4 DEF StreamInv, InOrder
<1>6. ASSUME NEW i \in 1 .. Len(wire')
      PROVE  wire'[i] = Len(received') + i
  <2>1. i + 1 \in 1 .. Len(wire) /\ i \in 1 .. Len(wire) - 1
    BY <1>2
  <2>2. wire[i + 1] = Len(received) + (i + 1)
    BY <2>1 DEF StreamInv, InOrder
  <2> QED
    BY <1>2, <1>4, <2>1, <2>2
<1>7. StreamTypeOK'
  BY <1>1, <1>2, <1>4 DEF StreamInv, StreamTypeOK
<1>8. InOrder'
  BY <1>5, <1>6 DEF InOrder
<1>9. CursorIsNext' /\ BatchOK' /\ AllSent'
  BY <1>1, <1>2, <1>4 DEF StreamInv, CursorIsNext, BatchOK, AllSent, Exhausted
<1> QED
  BY <1>7, <1>8, <1>9 DEF StreamInv

LEMMA BatchDoneKeeps ==
  ASSUME StreamInv, BatchDone
  PROVE  StreamInv'
<1>1. /\ conn = "open" /\ pc = "yield" /\ cursor = upto /\ cursor = Len(received) + Len(wire)
      /\ UNCHANGED <<feed, finished, cursor, upto, full, ending, wire, received>>
  BY DEF StreamInv, CursorIsNext, BatchDone
<1>2. CASE Exhausted /\ conn' = "closing" /\ done' = TRUE /\ pc' = pc
  BY <1>1, <1>2 DEF StreamInv, StreamTypeOK, InOrder, CursorIsNext, BatchOK, AllSent
<1>3. CASE pc' = "poll" /\ UNCHANGED <<conn, done>>
  BY <1>1, <1>3 DEF StreamInv, StreamTypeOK, InOrder, CursorIsNext, BatchOK, AllSent
<1> QED
  BY <1>2, <1>3 DEF BatchDone

LEMMA ConnectionKeeps ==
  ASSUME StreamInv, Connect \/ TimeLimit \/ Closed \/ Break
  PROVE  StreamInv'
<1>1. LastEventId = Len(received) /\ LastEventId \in 0 .. Len(feed)
  BY LastIsCount DEF StreamInv
<1>2. CASE Connect
  <2>1. Len(wire) = 0 /\ Len(received) \in Nat
    BY <1>2 DEF StreamInv, StreamTypeOK, CursorIsNext, Connect
  <2> QED
    BY <1>1, <1>2, <2>1 DEF Connect, StreamInv, StreamTypeOK,
            InOrder, CursorIsNext, BatchOK, AllSent
<1>3. CASE TimeLimit
  BY <1>3 DEF TimeLimit, StreamInv, StreamTypeOK, InOrder, CursorIsNext, BatchOK, AllSent
<1>4. CASE Closed
  BY <1>4 DEF Closed, StreamInv, StreamTypeOK, InOrder, CursorIsNext, BatchOK, AllSent
<1>5. CASE Break
  <2>1. wire' \in Seq(1 .. Len(feed)) /\ Len(wire') = 0
    BY <1>5 DEF Break
  <2>2. /\ wire' = << >> /\ conn' = "closed" /\ done' = FALSE
        /\ UNCHANGED <<feed, finished, pc, cursor, upto, full, ending, received>>
    BY <1>5 DEF Break
  <2>3. StreamTypeOK'
    BY <2>1, <2>2 DEF StreamInv, StreamTypeOK
  <2>4. InOrder'
    BY <2>1, <2>2 DEF StreamInv, InOrder
  <2>5. CursorIsNext' /\ BatchOK' /\ AllSent'
    BY <2>2 DEF CursorIsNext, BatchOK, AllSent
  <2> QED
    BY <2>3, <2>4, <2>5 DEF StreamInv
<1> QED
  BY <1>2, <1>3, <1>4, <1>5

-----------------------------------------------------------------------------
LEMMA InitStreamInv == StreamInit => StreamInv
<1> SUFFICES ASSUME StreamInit PROVE StreamInv
  OBVIOUS
<1>1. /\ feed = << >> /\ wire = << >> /\ received = << >>
      /\ Len(feed) = 0 /\ Len(wire) = 0 /\ Len(received) = 0
  BY DEF StreamInit, FeedInit
<1>2. StreamTypeOK
  <2>1. \A S : << >> \in Seq(S)
    OBVIOUS
  <2>2. feed \in Seq(Event) /\ wire \in Seq(1 .. Len(feed)) /\ received \in Seq(1 .. Len(feed))
    BY <1>1, <2>1
  <2>3. /\ finished = FALSE /\ full = FALSE /\ ending = FALSE /\ done = FALSE
        /\ conn = "closed" /\ pc = "poll" /\ cursor = 0 /\ upto = 0
    BY DEF StreamInit, FeedInit
  <2>4. Len(feed) \in Nat
    BY <1>1
  <2>5. cursor \in 0 .. Len(feed) /\ upto \in 0 .. Len(feed)
    BY <2>3, <2>4
  <2> QED
    BY <2>2, <2>3, <2>5 DEF StreamTypeOK
<1>3. InOrder
  BY <1>1 DEF InOrder
<1>4. CursorIsNext /\ BatchOK /\ AllSent
  BY DEF StreamInit, CursorIsNext, BatchOK, AllSent
<1> QED
  BY <1>2, <1>3, <1>4 DEF StreamInv

LEMMA NextStreamInv == StreamInv /\ [StreamNext]_allVars => StreamInv'
<1> SUFFICES ASSUME StreamInv, [StreamNext]_allVars PROVE StreamInv'
  OBVIOUS
<1>1. CASE UNCHANGED allVars
  BY <1>1 DEF allVars, StreamInv, StreamTypeOK, InOrder, CursorIsNext, BatchOK, AllSent, Exhausted
<1> QED
  BY <1>1, WriteKeeps, PollKeeps, YieldKeeps, DeliverKeeps, BatchDoneKeeps, ConnectionKeeps
  DEF StreamNext, Server, Browser, JobWrites

\* While a connection is up the cursor is the number of events received or on the wire,
\* in every reachable state (follow_events).
THEOREM StreamInvariance == StreamSpec => []StreamInv
BY InitStreamInv, NextStreamInv, PTL DEF StreamSpec

\* No cursor ever points past the end of the log, and no sequence is sent that the
\* log does not have (stream.py).
THEOREM StreamTypeCorrect == StreamSpec => []StreamTypeOK
<1>1. StreamInv => StreamTypeOK
  BY DEF StreamInv
<1> QED
  BY <1>1, StreamInvariance, PTL

\* Over any number of connections the browser receives every event once and in
\* order, and a stream the server has ended is the whole log (E19, E20).
THEOREM StreamCorrect == StreamSpec => []StreamLosesNothing
<1>1. StreamInv => StreamLosesNothing
  BY DEF StreamInv, InOrder, AllSent, StreamLosesNothing
<1> QED
  BY <1>1, StreamInvariance, PTL

-----------------------------------------------------------------------------
\* Jobs and the stream move as they do alone: what is proved about one of them holds
\* in the composition whose liveness is checked.
THEOREM LiveImplementsParts == LiveSpec => Spec /\ StreamSpec
<1>1. LiveInit => Init /\ StreamInit
  BY DEF LiveInit
<1>2. [LiveNext]_<<vars, allVars, moving>> => [Next]_vars /\ [StreamNext]_allVars
  <2> SUFFICES ASSUME [LiveNext]_<<vars, allVars, moving>>
               PROVE  [Next]_vars /\ [StreamNext]_allVars
    OBVIOUS
  <2>1. CASE moving = "jobs" /\ Next /\ UNCHANGED <<allVars, moving>>
    BY <2>1
  <2>2. CASE moving = "stream" /\ StreamNext /\ UNCHANGED <<vars, moving>>
    BY <2>2
  <2>3. CASE UNCHANGED <<vars, allVars, moving>>
    BY <2>3
  <2> QED
    BY <2>1, <2>2, <2>3 DEF LiveNext
<1> QED
  BY <1>1, <1>2, PTL DEF LiveSpec, Spec, StreamSpec

-----------------------------------------------------------------------------
(***************************************************************************)
(* A browser that watches a job: the stream's feed is the log of that job, *)
(* and the status it polls is the job's.  Any step of Jobs may come        *)
(* between two steps of the stream.                                        *)
(***************************************************************************)
Shows(j) == feed = Types(log[j]) /\ finished = (job[j].status \in Terminal)

WatchNext(j) ==
  \/ Next /\ Shows(j)' /\ UNCHANGED reader
  \/ (Server \/ TimeLimit \/ Browser \/ Deliver \/ Break) /\ UNCHANGED vars

WatchSpec(j) ==
  Init /\ StreamInit /\ Shows(j) /\ [][WatchNext(j)]_<<vars, allVars>>

\* A stream that the server has ended is the log of a finished job, all of it.
EndsWithTheLog(j) ==
  done => job[j].status \in Terminal /\ Len(received) + Len(wire) = Len(log[j])

\* Whatever workers, dispatchers and scans do to the job and its log, the job's own
\* browser gets each of its events once and in order, and a stream that was ended is
\* the whole log of a job that is over (watch_job over append_event, E19 and E20).
THEOREM WatchedCorrectly ==
  ASSUME NEW j \in Jobs, EventTypes \subseteq Event
  PROVE  WatchSpec(j) => [](StreamLosesNothing /\ EndsWithTheLog(j))
<1> DEFINE WatchInv == Inv /\ StreamInv /\ Shows(j)
<1>1. Init /\ StreamInit /\ Shows(j) => WatchInv
  BY InitInv, InitStreamInv
<1>2. WatchInv /\ [WatchNext(j)]_<<vars, allVars>> => WatchInv'
  <2> SUFFICES ASSUME WatchInv, [WatchNext(j)]_<<vars, allVars>> PROVE WatchInv'
    OBVIOUS
  <2>1. CASE (Server \/ TimeLimit \/ Browser \/ Deliver \/ Break) /\ UNCHANGED vars
    <3>1. Inv' /\ StreamInv'
      BY <2>1, NextInv, NextStreamInv DEF StreamNext
    <3>2. UNCHANGED <<feed, finished>>
      BY <2>1 DEF Server, Poll, Yield, BatchDone, TimeLimit, Browser, Connect, Closed,
                  Deliver, Break
    <3>3. UNCHANGED <<log, job>>
      BY <2>1 DEF vars
    <3> QED
      BY <3>1, <3>2, <3>3 DEF Shows
  <2>2. CASE UNCHANGED <<vars, allVars>>
    <3>1. Inv' /\ StreamInv'
      BY <2>2, NextInv, NextStreamInv
    <3> QED
      BY <2>2, <3>1 DEF Shows, vars, allVars
  <2>3. CASE Next /\ Shows(j)' /\ UNCHANGED reader
    <3>1. Inv'
      BY <2>3, NextInv
    <3>2. JobStep(j)
      BY <2>3, EveryStepIsAJobStep
    <3>3. CASE /\ Types(log'[j]) = Types(log[j])
               /\ job'[j].status \in Terminal <=> job[j].status \in Terminal
      <4>1. feed' = feed
        BY <2>3, <3>3 DEF Shows
      <4>2. finished' = finished
        BY <2>3, <3>3, SMT DEF Shows, Terminal
      <4>3. UNCHANGED allVars
        BY <2>3, <4>1, <4>2 DEF reader, allVars
      <4> QED
        BY <2>3, <3>1, <4>3, NextStreamInv
    <3>4. CASE /\ job[j].status \notin Terminal
               /\ \E e \in EventTypes :
                    Types(log'[j]) \in {Append(Types(log[j]), e)}
                      \cup {Append(Append(Types(log[j]), e), f) : f \in EventTypes}
      <4>1. feed = Types(log[j]) /\ feed' = Types(log'[j])
        BY <2>3 DEF Shows
      <4>2. ~finished /\ finished' \in BOOLEAN
        <5>1. (job'[j].status \in Terminal) \in BOOLEAN
          BY SMT DEF Terminal
        <5>2. finished = (job[j].status \in Terminal) /\ finished' = (job'[j].status \in Terminal)
          BY <2>3 DEF Shows
        <5> QED
          BY <3>4, <5>1, <5>2, Zenon
      <4>3. \E e \in Event :
              feed' \in {Append(feed, e)} \cup {Append(Append(feed, e), f) : f \in Event}
        BY <3>4, <4>1
      <4>4. Write
        BY <4>2, <4>3 DEF Write
      <4> QED
        BY <2>3, <3>1, <4>4, WriteKeeps
    <3> QED
      BY <3>2, <3>3, <3>4, JobStepWrites
  <2> QED
    BY <2>1, <2>2, <2>3 DEF WatchNext
<1>3. WatchInv => StreamLosesNothing /\ EndsWithTheLog(j)
  <2> SUFFICES ASSUME WatchInv PROVE StreamLosesNothing /\ EndsWithTheLog(j)
    OBVIOUS
  <2>1. StreamLosesNothing
    BY DEF StreamInv, InOrder, AllSent, StreamLosesNothing
  <2>2. Len(feed) = Len(log[j])
    <3>1. log[j] \in Seq(Events)
      BY DEF Inv, TypeOK
    <3> QED
      BY <3>1, SMT DEF Shows, Types
  <2>3. finished => job[j].status \in Terminal
    BY DEF Shows
  <2> QED
    BY <2>1, <2>2, <2>3 DEF StreamInv, AllSent, EndsWithTheLog
<1> QED
  BY <1>1, <1>2, <1>3, PTL DEF WatchSpec
=============================================================================
