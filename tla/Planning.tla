------------------------------ MODULE Planning ------------------------------
(***************************************************************************)
(* How a day gets its agenda (goalflow/scheduling): ensure_agenda submits  *)
(* a job for the day and the planning revision, the job computes from what *)
(* it reads outside of any transaction, and its commit looks at the        *)
(* revision again before it adds an agenda revision and makes it current.  *)
(*                                                                         *)
(* Jobs are used through their contract (JobContract, which Jobs           *)
(* implements).  What an agenda is computed from is abstracted to two      *)
(* numbers: the planning revision, which commands on preferences,          *)
(* availability, overrides, constraints and links advance, and the number  *)
(* of changes to goals that do not advance it.                             *)
(***************************************************************************)
EXTENDS Naturals, Sequences

CONSTANTS
  Days,         \* local dates, as numbers
  WeekOf,       \* the week each day belongs to
  Workers,
  MaxRevision,  \* bound of the planning revision
  MaxQuiet,     \* bound of the changes that leave the revision alone
  Tries,        \* bound: jobs submitted for one day and revision
  NoJob

ASSUME DaysAssumption == Days \subseteq Nat /\ WeekOf \in [Days -> Nat]

ASSUME PlanningBounds ==
  MaxRevision \in Nat /\ MaxQuiet \in Nat /\ Tries \in Nat \ {0}

Revisions == 0 .. MaxRevision

\* A job is its input (day and revision) and the number of the submission.
Jobs == Days \X Revisions \X (1 .. Tries)
Day(j) == j[1]
InputRevision(j) == j[2]

ASSUME NoJobAssumption == NoJob \notin Jobs

VARIABLES
  state, asked, result,  \* the jobs, as JobContract describes them
  revision,  \* user_planning_state.revision (0 without a row)
  quiet,     \* changes to goals and tasks that did not advance the revision
  history,   \* the agenda revisions of each day; the last one is current
  attempt    \* what each worker is doing for a job

jobs == <<state, asked, result>>
vars == <<state, asked, result, revision, quiet, history, attempt>>

\* Definitions named X_Y are mutants of X: plausible mistakes that the runs are
\* shown to detect.  No action uses them.
DedupeKey_PerSubmission == [j \in Jobs |-> j]

\* dedupe_key=f"{local_date}:{current}"
DedupeKey == [j \in Jobs |-> <<Day(j), InputRevision(j)>>]

Contract == INSTANCE JobContract WITH Keys <- Days \X Revisions

\* An agenda revision: the revision it names as its input, what was really
\* read, and whether any task found a place.
Agendas == [basis : Revisions, readAt : Revisions, quietAt : 0 .. MaxQuiet, items : BOOLEAN]

Attempts ==
  [phase   : {"idle", "begun", "read", "computed", "stale", "failed"},
   job     : Jobs \cup {NoJob},
   saw     : Revisions,       \* SchedulingSnapshot.planning_revision
   readAt  : Revisions,       \* the revision when the rest was read
   quietAt : 0 .. MaxQuiet]

Idle == [phase |-> "idle", job |-> NoJob, saw |-> 0, readAt |-> 0, quietAt |-> 0]

TypeOK ==
  /\ state \in [Jobs -> {"none", "open"} \cup Contract!Endings]
  /\ asked \in [Jobs -> BOOLEAN] /\ result \in [Jobs -> BOOLEAN]
  /\ revision \in Revisions /\ quiet \in 0 .. MaxQuiet
  /\ history \in [Days -> Seq(Agendas)]
  /\ attempt \in [Workers -> Attempts]

Init ==
  /\ Contract!Init
  /\ revision = 0 /\ quiet = 0
  /\ history = [d \in Days |-> << >>]
  /\ attempt = [w \in Workers |-> Idle]

-----------------------------------------------------------------------------
\* A command that advances the revision in its own transaction:
\* update_preferences, update_availability, override_day, constrain_task, and the
\* confirmation of a link or of its removal.
ChangePlanning ==
  /\ revision < MaxRevision
  /\ revision' = revision + 1
  /\ UNCHANGED <<jobs, quiet, history, attempt>>

\* activate_plan, pause_goal, resume_goal, close_goal, undo_closure: goals and
\* tasks change, the revision does not.
ChangeGoal ==
  /\ quiet < MaxQuiet
  /\ quiet' = quiet + 1
  /\ UNCHANGED <<jobs, revision, history, attempt>>

\* ensure_agenda(): a new job, unless one holds the key of day and revision.
Ensure(d) ==
  /\ \E j \in Jobs : /\ Day(j) = d /\ InputRevision(j) = revision
                     /\ Contract!Accept(j)
  /\ UNCHANGED <<revision, quiet, history, attempt>>

\* The user asks to cancel; the last submission is left alone (bound).
Disturbable(j) == j[3] < Tries

Cancel(j) ==
  /\ Disturbable(j)
  /\ Contract!Ask(j) \/ Contract!CancelAtOnce(j)
  /\ UNCHANGED <<revision, quiet, history, attempt>>

\* How the job of an attempt ends; one that was asked to stop is cancelled.
Ends(j, how) == Contract!End([k \in {j} |-> IF asked[j] THEN "cancelled" ELSE how])

\* Its attempts are used up by deaths and lock timeouts; the last submission is
\* left alone (bound).
GivesUp(j) ==
  /\ Disturbable(j)
  /\ Ends(j, "failed")
  /\ UNCHANGED <<revision, quiet, history, attempt>>

-----------------------------------------------------------------------------
Finish(w) == attempt' = [attempt EXCEPT ![w] = Idle]

\* A dead worker, a lost lease or an error worth retrying.
AttemptEnds(w) ==
  /\ attempt[w].phase # "idle"
  /\ Finish(w)
  /\ UNCHANGED <<jobs, revision, quiet, history>>

\* build_snapshot() reads the planning revision in a transaction of its own ...
ReadRevision(w, j) ==
  /\ attempt[w].phase = "idle"
  /\ state[j] = "open"
  /\ attempt' = [attempt EXCEPT ![w] = [Idle EXCEPT !.phase = "begun", !.job = j, !.saw = revision]]
  /\ UNCHANGED <<jobs, revision, quiet, history>>

Current(d) == history[d][Len(history[d])]
HasItems(d) == history[d] # << >> /\ Current(d).items

\* For every item of a current agenda of the week so far it asks the agenda
\* revision for a local_date, which only the daily agenda has.
SnapshotRaises(d) == \E e \in Days : e <= d /\ WeekOf[e] = WeekOf[d] /\ HasItems(e)

\* ... and then everything else in another one.
ReadData(w) ==
  /\ attempt[w].phase = "begun"
  /\ attempt' = [attempt EXCEPT
       ![w].phase = IF SnapshotRaises(Day(attempt[w].job)) THEN "failed" ELSE "read",
       ![w].readAt = revision, ![w].quietAt = quiet]
  /\ UNCHANGED <<jobs, revision, quiet, history>>

\* generate_agenda() up to its commit.
Compute(w) ==
  /\ attempt[w].phase = "read"
  /\ attempt' = [attempt EXCEPT
       ![w].phase = IF attempt[w].saw = InputRevision(attempt[w].job) THEN "computed" ELSE "stale"]
  /\ UNCHANGED <<jobs, revision, quiet, history>>

InputIsCurrent_Unchecked(j) == TRUE

InputIsCurrent(j) == revision = InputRevision(j)

\* persist_agenda(): the next version of the day, which becomes current.
Persist(w, items) ==
  LET j == attempt[w].job
  IN  history' = [history EXCEPT ![Day(j)] = Append(@,
        [basis |-> InputRevision(j), readAt |-> attempt[w].readAt,
         quietAt |-> attempt[w].quietAt, items |-> items])]

\* The commit of the job: status and agenda in one transaction.
Commit(w) ==
  LET j == attempt[w].job
  IN  /\ attempt[w].phase = "computed"
      /\ \/ /\ state[j] = "open" /\ ~asked[j] /\ InputIsCurrent(j)
            /\ Ends(j, "succeeded")
            /\ \E items \in BOOLEAN : Persist(w, items)
            /\ Finish(w)
         \/ /\ state[j] = "open" /\ ~asked[j] /\ ~InputIsCurrent(j)
            /\ attempt' = [attempt EXCEPT ![w].phase = "stale"]
            /\ UNCHANGED <<jobs, history>>
      /\ UNCHANGED <<revision, quiet>>

\* The job has ended without this attempt: it has no lease and writes nothing.
ComesTooLate(w) ==
  /\ attempt[w].phase \in {"computed", "stale", "failed"}
  /\ state[attempt[w].job] # "open"
  /\ Finish(w)
  /\ UNCHANGED <<jobs, revision, quiet, history>>

\* The attempt tells the job how it failed, in a transaction of its own; a job
\* asked to stop before it committed is cancelled.
Settle(w) ==
  LET j == attempt[w].job
  IN  /\ \/ attempt[w].phase \in {"stale", "failed"}
         \/ attempt[w].phase = "computed" /\ asked[j]
      /\ Ends(j, attempt[w].phase)
      /\ Finish(w)
      /\ UNCHANGED <<revision, quiet, history>>

WorkerStep(w) == ReadData(w) \/ Compute(w) \/ Commit(w) \/ Settle(w) \/ ComesTooLate(w)

Next ==
  \/ ChangePlanning \/ ChangeGoal
  \/ \E d \in Days : Ensure(d)
  \/ \E j \in Jobs : Cancel(j) \/ GivesUp(j)
  \/ \E w \in Workers : AttemptEnds(w) \/ WorkerStep(w)
  \/ \E w \in Workers, j \in Jobs : ReadRevision(w, j)

Spec == Init /\ [][Next]_vars

\* The client asks until the day has an agenda, an open job is worked on, and
\* attempts do not all die on the way.
FairSpec ==
  /\ Spec
  /\ \A d \in Days : WF_vars(Ensure(d))
  /\ \A j \in Jobs : /\ SF_vars(\E w \in Workers : ReadRevision(w, j))
                    /\ SF_vars(\E w \in Workers : attempt[w].job = j /\ ReadData(w))
                    /\ SF_vars(\E w \in Workers : attempt[w].job = j /\ Compute(w))
                    /\ SF_vars(\E w \in Workers : attempt[w].job = j /\ (Commit(w) \/ Settle(w)))
  /\ \A w \in Workers : WF_vars(WorkerStep(w))

-----------------------------------------------------------------------------
\* An agenda was computed from the data of the very revision it names, though
\* the revision and the data are read in two transactions and committed in a
\* third (13, section 7).
AgendaIsOfItsRevision ==
  \A d \in Days : \A i \in 1 .. Len(history[d]) : history[d][i].basis = history[d][i].readAt

HasVersion(d, r) == \E i \in 1 .. Len(history[d]) : history[d][i].basis = r
HasResult(d, r) ==
  \E j \in Jobs : Day(j) = d /\ InputRevision(j) = r /\ state[j] = "succeeded"

\* Each revision of the inputs gets at most one agenda per day, in the order of
\* the revisions, and exactly if a job for it has succeeded: the current agenda
\* is never replaced by one of older inputs.
VersionsFollowRevisions ==
  \A d \in Days :
    /\ \A i, k \in 1 .. Len(history[d]) : i < k => history[d][i].basis < history[d][k].basis
    /\ \A r \in Revisions : HasVersion(d, r) <=> HasResult(d, r)

\* Of two agendas of a day the later one knows every change to goals that the
\* earlier one knew, though nothing but the revision is compared and such changes
\* leave it alone.
LaterAgendasKnowMore ==
  \A d \in Days : \A i, k \in 1 .. Len(history[d]) :
    i < k => history[d][i].quietAt <= history[d][k].quietAt

\* What the design says of the commands on goals (17, section 1: they advance the
\* revision): an agenda whose input is the current revision knows every change.
CurrentKnowsAllChanges ==
  \A d \in Days : history[d] # << >> /\ Current(d).basis = revision => Current(d).quietAt = quiet

\* What ensure_agenda says of itself: once the revision stays as it is (its bound
\* sees to that), the day comes to have an agenda of that revision and keeps it.
LatestAgendaAppears ==
  \A d \in Days : <>[](history[d] # << >> /\ Current(d).basis = revision)
=============================================================================
