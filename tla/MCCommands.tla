----------------------------- MODULE MCCommands -----------------------------
(***************************************************************************)
(* Small instances, for TLC, of the six modules about the commands of the  *)
(* API and the guards in front of them: Idempotency, Goals, Links,         *)
(* ModelConfigs, Auth and RateLimit.  Here they have no variable in common *)
(* and every property is about one of them, so one of them moves in each   *)
(* behaviour, in place of all their interleavings.                         *)
(***************************************************************************)
EXTENDS MCIdempotency, MCGoals, Links, ModelConfigs, Auth, RateLimit

VARIABLE area  \* what moves

Areas == {"idempotency", "goals", "links", "models", "auth", "limit"}

all == <<vars, goalVars, linkVars, configVars, authVars, limitVars>>

\* The first state of what does not move makes no difference.
CommandInit ==
  /\ area \in Areas
  /\ Init /\ GoalInit /\ LinksInit /\ ConfigInit /\ AuthInit /\ LimitInit
  /\ area # "auth" => \A a \in Accounts : users[a] = "absent"

CommandNext ==
  \/ area = "idempotency" /\ Next
       /\ UNCHANGED <<goalVars, linkVars, configVars, authVars, limitVars, area>>
  \/ area = "goals" /\ GoalNext
       /\ UNCHANGED <<vars, linkVars, configVars, authVars, limitVars, area>>
  \/ area = "links" /\ LinksNext
       /\ UNCHANGED <<vars, goalVars, configVars, authVars, limitVars, area>>
  \/ area = "models" /\ ConfigNext
       /\ UNCHANGED <<vars, goalVars, linkVars, authVars, limitVars, area>>
  \/ area = "auth" /\ AuthNext
       /\ UNCHANGED <<vars, goalVars, linkVars, configVars, limitVars, area>>
  \/ area = "limit" /\ LimitNext
       /\ UNCHANGED <<vars, goalVars, linkVars, configVars, authVars, area>>

CommandSpec == CommandInit /\ [][CommandNext]_<<all, area>>

\* Every column of the six areas holds what it is declared to hold: no time is
\* ahead of the clock's bound, no revision leaves its bound, no row is half filled.
CommandsTypeOK ==
  /\ TypeOK /\ GoalTypeOK /\ LinksTypeOK
  /\ ConfigTypeOK /\ AuthTypeOK /\ LimitTypeOK

-----------------------------------------------------------------------------
CONSTANTS t1, t2, t3, l12, l13, l23, again

\* A task of each of three goals.  Two of the goals may be linked again after
\* their link was removed.
ThreeGoals == t1 :> 1 @@ t2 :> 2 @@ t3 :> 3
ThreePairs == l12 :> {1, 2} @@ l13 :> {1, 3} @@ l23 :> {2, 3} @@ again :> {1, 2}

-----------------------------------------------------------------------------
CONSTANTS login, other

\* Two rules of the limiter with different limits and windows.
TwoLimits == login :> 2 @@ other :> 1
TwoWindows == login :> 2 @@ other :> 3
=============================================================================
