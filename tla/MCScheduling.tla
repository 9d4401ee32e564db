---------------------------- MODULE MCScheduling ----------------------------
(***************************************************************************)
(* Small instances, for TLC, of the three modules about scheduling: the    *)
(* revisions an agenda is of (Planning), what a day has time for           *)
(* (Availability) and how it is filled (AgendaEngine).  They have no       *)
(* variable in common and every property is about one of them, so one of   *)
(* them moves in each behaviour, in place of all their interleavings.      *)
(***************************************************************************)
EXTENDS MCPlanning, MCAvailability, MCEngine

VARIABLE area  \* what moves

\* The snapshot matters where the engine moves only.
SchedulingInit ==
  /\ area \in {"planning", "availability", "engine"}
  /\ Init /\ AvailInit /\ EngineInit
  /\ area # "engine" => day = CHOOSE d \in Snapshots : TRUE

SchedulingNext ==
  \/ area = "planning" /\ Next /\ UNCHANGED <<availVars, engineVars, area>>
  \/ area = "availability" /\ AvailNext /\ UNCHANGED <<vars, engineVars, area>>
  \/ area = "engine" /\ EngineNext /\ UNCHANGED <<vars, availVars, area>>

SchedulingSpec ==
  SchedulingInit /\ [][SchedulingNext]_<<vars, availVars, engineVars, area>>

\* Every column and every result holds what it is declared to hold.
SchedulingTypeOK == TypeOK /\ AvailTypeOK /\ EngineTypeOK

\* Workers are interchangeable, clients too.
SameActors == SameWorkers \cup SameClients
=============================================================================
