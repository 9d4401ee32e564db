----------------------------- MODULE MCLiveness -----------------------------
(***************************************************************************)
(* What must happen in the end: jobs end, and a browser that watches one   *)
(* gets all of its events.  JobStream is about any feed, not about a job   *)
(* of this instance, so one of the two moves in each behaviour.            *)
(***************************************************************************)
EXTENDS MCJobs, JobStream

VARIABLE moving

LiveInit ==
  /\ moving \in {"jobs", "stream"}
  /\ Init /\ StreamInit

LiveNext ==
  \/ moving = "jobs" /\ Next /\ UNCHANGED <<allVars, moving>>
  \/ moving = "stream" /\ StreamNext /\ UNCHANGED <<vars, moving>>

LiveSpec ==
  /\ LiveInit /\ [][LiveNext]_<<vars, allVars, moving>>
  /\ moving = "jobs" => Fairness
  /\ moving = "stream" => StreamFairness
=============================================================================
