------------------------------ MODULE JobFeed ------------------------------
(***************************************************************************)
(* What a reader of one job's events relies on: the log only grows at its  *)
(* end, in whole transactions, and once the job is seen to have finished   *)
(* its log is complete.  Jobs implements this for every job; JobStream is  *)
(* built on it.                                                            *)
(***************************************************************************)
EXTENDS Naturals, Sequences

CONSTANT Event

VARIABLES
  feed,       \* the events of the job, in sequence order
  finished    \* the job's status is terminal

feedVars == <<feed, finished>>

FeedInit == feed = << >> /\ finished = FALSE

\* A write transaction of the job: one event, or two of them (a commit that
\* awaits confirmation), and possibly the end of the job.
Write ==
  /\ ~finished
  /\ \E e \in Event : feed' \in {Append(feed, e)} \cup {Append(Append(feed, e), f) : f \in Event}
  /\ finished' \in BOOLEAN

FeedNext == Write

FeedSpec == FeedInit /\ [][FeedNext]_feedVars
=============================================================================
