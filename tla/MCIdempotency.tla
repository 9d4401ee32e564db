--------------------------- MODULE MCIdempotency ---------------------------
(* Small instances of Idempotency for TLC. *)
EXTENDS Idempotency, TLC

CONSTANTS s1, s2, s3, s4, k1, cancel_job, pause_goal, d1, d2

\* All requests carry the same key.
SameKey == [s \in Sends |-> k1]

\* The cancellation of one job and a retry of it, the cancellation of another job, and
\* a command on a goal.
FourRequests == s1 :> cancel_job @@ s2 :> cancel_job @@ s3 :> cancel_job @@ s4 :> pause_goal
TwoDetails == s1 :> d1 @@ s2 :> d1 @@ s3 :> d2 @@ s4 :> d2

\* One goal is paused, that is retried, and another goal is paused, twice as well.
PausesOnly == [s \in Sends |-> pause_goal]
=============================================================================
