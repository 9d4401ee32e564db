---------------------------- MODULE MCSubmission ----------------------------
(***************************************************************************)
(* A small instance, for TLC, of Jobs from the submission of a job to its  *)
(* claim, in two parts of which one moves in each behaviour: two jobs with *)
(* one dedupe key, or one job whose outbox rows two dispatchers send.      *)
(***************************************************************************)
EXTENDS Jobs, FiniteSets, TLC

VARIABLE area  \* what moves: "key" or "rows"

\* All jobs are submitted with the same key.
OneKey == [j \in Jobs |-> CHOOSE k \in Keys : TRUE]

\* Jobs and dispatchers are interchangeable.  (Slots are not: CHOOSE picks the slot of a
\* row.)
Symmetric == Permutations(Jobs) \cup Permutations(Dispatchers)

FirstSlot == CHOOSE s \in Slots : TRUE

\* In the first part there is one row and one message of a job, and one dispatcher, at a
\* time.
OneRow == \A j \in Jobs, s \in Slots \ {FirstSlot} : outbox'[j][s] = "none"
OneMessage == \A j \in Jobs : broker'[j] <= 1
OneDispatcher == Cardinality({d \in Dispatchers : Busy(d)'}) <= 1

\* In the second part there is one job.
OneJob == Cardinality({j \in Jobs : job'[j].status # "none"}) <= 1

SubmissionInit == Init /\ area \in {"key", "rows"}

\* A worker may die during its attempt, but what announces a job is not lost: in both
\* parts a queued job has to stay announced.
SubmissionNext ==
  /\ UNCHANGED area
  /\ \/ /\ area = "key"
        /\ LosslessNext \/ \E w \in Workers : worker[w].phase # "received" /\ WorkerDies(w)
        /\ OneRow /\ OneMessage /\ OneDispatcher
     \/ /\ area = "rows"
        /\ LosslessNext
        /\ OneJob

SubmissionSpec == SubmissionInit /\ [][SubmissionNext]_<<vars, area>>
=============================================================================
