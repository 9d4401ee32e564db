---------------------------- MODULE JobContract ----------------------------
(***************************************************************************)
(* What the jobs package promises to the modules that submit jobs: a job   *)
(* with a free key is accepted, it ends, and it ends either with its       *)
(* business result in the database or without any.  A job the user asked   *)
(* to cancel while it was open ends cancelled, and nothing is ever undone. *)
(* Attempts, leases, messages and time are not visible at this level.      *)
(***************************************************************************)
CONSTANTS Jobs, Keys, DedupeKey

VARIABLES
  state,   \* "none", "open", or how the job ended
  asked,   \* cancellation was requested
  result   \* the business result is in the database

vars == <<state, asked, result>>

Endings == {"succeeded", "failed", "cancelled", "stale"}

Init ==
  /\ state = [j \in Jobs |-> "none"]
  /\ asked = [j \in Jobs |-> FALSE]
  /\ result = [j \in Jobs |-> FALSE]

\* A key is free unless its job is open or has succeeded.
Accept(j) ==
  /\ state[j] = "none"
  /\ \A k \in Jobs : DedupeKey[k] = DedupeKey[j] => state[k] \notin {"open", "succeeded"}
  /\ state' = [state EXCEPT ![j] = "open"]
  /\ UNCHANGED <<asked, result>>

Ask(j) ==
  /\ state[j] = "open"
  /\ ~asked[j]
  /\ asked' = [asked EXCEPT ![j] = TRUE]
  /\ UNCHANGED <<state, result>>

OpenJobs == {j \in Jobs : state[j] = "open"}

\* The result appears in the very step in which the job succeeds.  One step
\* may end several jobs, as the recovery scan does: ends is a function from the
\* jobs that end to how they end.
End(ends) ==
  LET ending == DOMAIN ends
  IN  /\ ending # {}
      /\ \A j \in ending : /\ state[j] = "open"
                           /\ asked[j] <=> ends[j] = "cancelled"
      /\ state' = [j \in Jobs |-> IF j \in ending THEN ends[j] ELSE state[j]]
      /\ result' = [j \in Jobs |-> IF j \in ending THEN ends[j] = "succeeded" ELSE result[j]]
      /\ asked' = asked

\* A job nobody works on is cancelled at once.
CancelAtOnce(j) ==
  /\ state[j] = "open"
  /\ ~asked[j]
  /\ state' = [state EXCEPT ![j] = "cancelled"]
  /\ asked' = [asked EXCEPT ![j] = TRUE]
  /\ result' = result

Next ==
  \/ \E j \in Jobs : Accept(j) \/ Ask(j) \/ CancelAtOnce(j)
  \/ \E ending \in SUBSET OpenJobs : \E ends \in [ending -> Endings] : End(ends)

Spec == Init /\ [][Next]_vars

\* An accepted job ends.
FairSpec ==
  /\ Spec
  /\ \A j \in Jobs :
       WF_vars(\E ending \in SUBSET OpenJobs : \E ends \in [ending -> Endings] :
                 j \in ending /\ End(ends))
=============================================================================
