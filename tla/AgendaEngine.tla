---------------------------- MODULE AgendaEngine ----------------------------
(***************************************************************************)
(* The agenda engine (goalflow/scheduling/engine.py): calculate_agenda as  *)
(* the loop it is.  Tasks that must be done today come first, the others   *)
(* fill what is left in a fixed order, and what cannot be met is reported. *)
(*                                                                         *)
(* Ids are numbers, which the code orders as strings.  Dates are counted   *)
(* from the snapshot's own day.  The service so far passes spent = 0 and   *)
(* no paused goal; the engine is modelled for any snapshot.                *)
(***************************************************************************)
EXTENDS Integers, Sequences, FiniteSetsExt

CONSTANTS
  EngineTasks, EngineGoals,  \* ids
  Snapshots,        \* the inputs: bound
  NoMinutes,        \* a field left empty
  UrgentWithin,     \* URGENT_WITHIN_DAYS
  SoonWithin,       \* SOON_WITHIN_DAYS
  StarvationAfter,  \* STARVATION_AFTER_DAYS
  GapHigh,          \* WEEKLY_GAP_HIGH_MINUTES
  DefaultSession    \* DEFAULT_MINIMUM_SESSION_MINUTES

ASSUME EngineIds == EngineTasks \subseteq Nat /\ EngineGoals \subseteq Nat /\ IsFiniteSet(EngineTasks)

ASSUME EngineThresholds ==
  {UrgentWithin, SoonWithin, StarvationAfter, GapHigh, DefaultSession} \subseteq Nat

OptionalMinutes == Nat \cup {NoMinutes}

\* gap: weekly_demand_minutes less weekly_fulfilled_minutes.
GoalInputs == [paused : BOOLEAN, focus : BOOLEAN, rank : Nat, gap : Int]

\* due and starts: days from today; a task without earliest_date may start at once.
TaskInputs ==
  [started : BOOLEAN, minutes : Nat, splittable : BOOLEAN,
   session : OptionalMinutes, starts : Int, due : Int, ready : BOOLEAN,
   constraint : {"none", "must_do_today", "locked"}, locked : OptionalMinutes, waited : Nat]

\* forecast[i] is the capacity i days from today.
ASSUME EngineSnapshots ==
  Snapshots \subseteq [basis : {"total", "remaining"}, quota : Nat, spent : Nat, weekly : Nat,
                       forecast : Seq(Nat), goals : [EngineGoals -> GoalInputs],
                       goalOf : [EngineTasks -> EngineGoals], tasks : [EngineTasks -> TaskInputs]]

VARIABLES
  day,        \* the snapshot
  phase,
  todo,       \* the tasks the loop has yet to look at
  agenda,     \* items, in the order of their ranks
  deferred,
  conflicts,
  left        \* remaining

engineVars == <<day, phase, todo, agenda, deferred, conflicts, left>>

Reasons == {"DEPENDENCY_BLOCKED", "MINIMUM_SESSION_UNFIT", "MANDATORY_CAPACITY_CONFLICT"}
ConflictCodes == {"MANDATORY_CAPACITY_CONFLICT", "WEEKLY_CAPACITY_CONFLICT", "DEADLINE_RISK"}

EngineTypeOK ==
  /\ day \in Snapshots
  /\ phase \in {"start", "mandatory", "flexible", "report", "done"}
  /\ todo \subseteq EngineTasks
  /\ agenda \in Seq([task : EngineTasks, minutes : Nat])
  /\ deferred \subseteq EngineTasks \X Reasons
  /\ conflicts \subseteq ConflictCodes \X SUBSET EngineTasks
  /\ left \in Nat

EngineInit ==
  /\ day \in Snapshots
  /\ phase = "start" /\ todo = {} /\ agenda = << >>
  /\ deferred = {} /\ conflicts = {} /\ left = 0

-----------------------------------------------------------------------------
\* Definitions named X_Y are mutants of X: plausible mistakes that the runs are
\* shown to detect.  No action uses them.

Task(t) == day.tasks[t]
Goal(t) == day.goals[day.goalOf[t]]
Least(a, b) == IF a <= b THEN a ELSE b

\* _remaining_capacity()
DayCapacity ==
  IF day.basis = "total" THEN IF day.quota >= day.spent THEN day.quota - day.spent ELSE 0
  ELSE day.quota

\* The classification.
Candidates == {t \in EngineTasks : ~Goal(t).paused}

MustBeToday(t) == Task(t).started \/ Task(t).constraint # "none" \/ Task(t).due = 0

MandatoryTasks == {t \in Candidates : MustBeToday(t)}
Overdue == {t \in Candidates : ~MustBeToday(t) /\ Task(t).due < 0}
Startable == {t \in Candidates : ~MustBeToday(t) /\ Task(t).due >= 0 /\ Task(t).starts <= 0}
Blocked == {t \in Startable : ~Task(t).ready}
Flexible == {t \in Startable : Task(t).ready}

Wanted(t) ==
  IF ~Task(t).started /\ Task(t).constraint # "none" /\ Task(t).locked # NoMinutes
  THEN Task(t).locked ELSE Task(t).minutes

MandatoryTotal == MapThenSumSet(Wanted, MandatoryTasks)

\* _session_floor()
SessionFloor(t) == IF Task(t).session # NoMinutes THEN Task(t).session ELSE DefaultSession

Tier(x, first, second) == IF x <= first THEN 0 ELSE IF x <= second THEN 1 ELSE 2

SortKey_RankFirst(t) == <<Goal(t).rank, Tier(Task(t).due, UrgentWithin, SoonWithin), day.goalOf[t], t>>

\* _sort_key()
SortKey(t) ==
  <<Tier(Task(t).due, UrgentWithin, SoonWithin),
    Tier(-Goal(t).gap, -GapHigh, -1),
    IF Task(t).waited >= StarvationAfter THEN 0 ELSE 1,
    IF Goal(t).focus THEN 0 ELSE 1,
    Goal(t).rank,
    -Task(t).waited,
    IF Task(t).minutes <= DayCapacity THEN 0 ELSE 1,
    day.goalOf[t], t>>

\* The order of tuples.
Precedes(key, t, u) ==
  \E i \in DOMAIN key[t] : /\ key[t][i] < key[u][i]
                           /\ \A k \in 1 .. i - 1 : key[t][k] = key[u][k]

\* The next of the tasks to do in the order of their keys.
IsFirst(t, key) == t \in todo /\ \A u \in todo \ {t} : Precedes(key, t, u)

MandatoryKey(t) == <<-Wanted(t), t>>

NextMandatory(t) == IsFirst(t, [u \in todo |-> MandatoryKey(u)])
NextFlexible(t) == IsFirst(t, [u \in todo |-> SortKey(u)])

-----------------------------------------------------------------------------
\* What must be done exceeds the capacity: nothing is allotted, and the user is to
\* choose.
Overflow ==
  /\ phase = "start" /\ MandatoryTotal > DayCapacity
  /\ conflicts' = {<<"MANDATORY_CAPACITY_CONFLICT", MandatoryTasks>>}
  /\ deferred' = Flexible \X {"MANDATORY_CAPACITY_CONFLICT"}
  /\ left' = DayCapacity
  /\ phase' = "done"
  /\ UNCHANGED <<day, todo, agenda>>

Begin ==
  /\ phase = "start" /\ MandatoryTotal <= DayCapacity
  /\ deferred' = Blocked \X {"DEPENDENCY_BLOCKED"}
  /\ left' = DayCapacity
  /\ todo' = MandatoryTasks
  /\ phase' = "mandatory"
  /\ UNCHANGED <<day, agenda, conflicts>>

Allot(t, minutes) ==
  /\ agenda' = Append(agenda, [task |-> t, minutes |-> minutes])
  /\ left' = left - minutes
  /\ todo' = todo \ {t}

PlaceMandatory(t) ==
  LET minutes == Least(Wanted(t), left)
  IN  /\ phase = "mandatory" /\ NextMandatory(t)
      /\ minutes > 0
      /\ Allot(t, minutes)
      /\ UNCHANGED <<day, phase, deferred, conflicts>>

\* The end of the loop, or its break at a task without minutes.
MandatoryDone ==
  /\ phase = "mandatory"
  /\ \A t \in todo : NextMandatory(t) => Least(Wanted(t), left) <= 0
  /\ todo' = Flexible
  /\ phase' = "flexible"
  /\ UNCHANGED <<day, agenda, deferred, conflicts, left>>

\* What today allots to a flexible task, if it is enough.
Share(t) == IF Task(t).splittable THEN Least(Task(t).minutes, left) ELSE Task(t).minutes

HasRoom_NoFloor(t) == left > 0 /\ (Task(t).splittable \/ Share(t) <= left)

HasRoom(t) ==
  /\ left > 0
  /\ IF Task(t).splittable THEN Share(t) >= SessionFloor(t) ELSE Share(t) <= left

PlaceFlexible(t) ==
  /\ phase = "flexible" /\ NextFlexible(t)
  /\ HasRoom(t)
  /\ Allot(t, Share(t))
  /\ UNCHANGED <<day, phase, deferred, conflicts>>

Defer(t) ==
  /\ phase = "flexible" /\ NextFlexible(t)
  /\ ~HasRoom(t)
  /\ deferred' = deferred \cup {<<t, "MINIMUM_SESSION_UNFIT">>}
  /\ todo' = todo \ {t}
  /\ UNCHANGED <<day, phase, agenda, conflicts, left>>

FlexibleDone ==
  /\ phase = "flexible" /\ todo = {}
  /\ phase' = "report"
  /\ UNCHANGED <<day, todo, agenda, deferred, conflicts, left>>

-----------------------------------------------------------------------------
Placed == {agenda[i].task : i \in DOMAIN agenda}

Allotted(t) == MapThenSumSet(LAMBDA i : agenda[i].minutes, {i \in DOMAIN agenda : agenda[i].task = t})

WeeklyGap ==
  MapThenSumSet(LAMBDA g : day.goals[g].gap, {g \in EngineGoals : ~day.goals[g].paused})

\* _forecast_capacity_until()
CapacityUntil(due) ==
  MapThenSumSet(LAMBDA i : day.forecast[i], {i \in DOMAIN day.forecast : i <= due})

AtRisk_WholeWork(t) == CapacityUntil(Task(t).due) < Task(t).minutes

AtRisk(t) ==
  LET work == Task(t).minutes - Allotted(t)
  IN  work > 0 /\ CapacityUntil(Task(t).due) < work

\* The conflicts: of the week, of overdue tasks, and of tasks that will be late.
Report ==
  /\ phase = "report"
  /\ conflicts' =
       (IF WeeklyGap > day.weekly THEN {<<"WEEKLY_CAPACITY_CONFLICT", Flexible \ Placed>>} ELSE {})
       \cup {<<"DEADLINE_RISK", {t}>> : t \in Overdue \cup {u \in Flexible : AtRisk(u)}}
  /\ phase' = "done"
  /\ UNCHANGED <<day, todo, agenda, deferred, left>>

EngineNext ==
  \/ Overflow \/ Begin \/ MandatoryDone \/ FlexibleDone \/ Report
  \/ \E t \in EngineTasks : PlaceMandatory(t) \/ PlaceFlexible(t) \/ Defer(t)

EngineSpec == EngineInit /\ [][EngineNext]_engineVars

-----------------------------------------------------------------------------
UsedBy(S) == MapThenSumSet(Allotted, S)

\* The minutes of all goals together never exceed the day's capacity, which is what
\* is left and what is allotted; no task has two items; and a task that is not
\* mandatory never gets more than its minutes, gets all of them if it is of one piece,
\* and gets a session no shorter than its least length otherwise (13, sections 5 and 9).
AgendaFitsTheDay ==
  /\ phase # "start" => left >= 0 /\ left + UsedBy(Placed) = DayCapacity
  /\ \A i, k \in DOMAIN agenda : agenda[i].task = agenda[k].task => i = k
  /\ \A t \in Placed \ MandatoryTasks :
       /\ Allotted(t) <= Task(t).minutes
       /\ ~Task(t).splittable => Allotted(t) = Task(t).minutes
       /\ Task(t).splittable => Allotted(t) >= SessionFloor(t)

Verdict(t, code) == \E S \in SUBSET EngineTasks : t \in S /\ <<code, S>> \in conflicts
IsDeferred(t) == \E r \in Reasons : <<t, r>> \in deferred

\* When the mandatory tasks fit into the day the result accounts for every task of the
\* goals that are not paused: they have all their minutes and come first, work in
\* progress goes on, any other task with minutes that may start has a place or a reason
\* to wait, and one that is or will be late is reported although the rest of the
\* result looks well.  When they do not fit, nothing is allotted, each of them is
\* named in the conflict and each flexible task deferred.  That is all that is said
\* then: overdue and blocked tasks are left out of that result (engine.py:285-299),
\* although 13, section 3, sends what is overdue to the conflicts or proposals.
NothingIsLostIfAllFits ==
  phase = "done" =>
    IF MandatoryTotal > DayCapacity
    THEN /\ agenda = << >> /\ \A t \in MandatoryTasks : Verdict(t, "MANDATORY_CAPACITY_CONFLICT")
         /\ \A t \in Flexible : IsDeferred(t)
    ELSE /\ \A t \in MandatoryTasks : Allotted(t) = Wanted(t)
         /\ \A t \in Candidates : Task(t).started => Allotted(t) = Task(t).minutes
         /\ \A i, k \in DOMAIN agenda :
              agenda[i].task \in Flexible /\ agenda[k].task \in MandatoryTasks => k < i
         /\ \A t \in Candidates :
              \/ Task(t).starts > 0 \/ Task(t).due < 0
              \/ (Allotted(t) > 0) # IsDeferred(t)
              \/ Wanted(t) = 0
         /\ Placed \subseteq MandatoryTasks \cup Flexible
         /\ \A t \in Overdue : Verdict(t, "DEADLINE_RISK")
         /\ \A t \in Flexible :
              Verdict(t, "DEADLINE_RISK") <=> Task(t).minutes - Allotted(t) > CapacityUntil(Task(t).due)

Urgency(t) == Tier(Task(t).due, UrgentWithin, SoonWithin)

\* No task is kept out of the day by a less urgent one, whatever the ranks and the
\* focus of their goals: it would not fit either if the less urgent tasks were left
\* out of the agenda (13, sections 4 and 9).
UrgentComeFirst ==
  \A t \in Flexible : <<t, "MINIMUM_SESSION_UNFIT">> \in deferred =>
    LET room == DayCapacity - UsedBy({u \in Placed : u \in MandatoryTasks \/ Urgency(u) <= Urgency(t)})
    IN  \/ room <= 0
        \/ room < Task(t).minutes /\ ~Task(t).splittable
        \/ Least(room, Task(t).minutes) < SessionFloor(t) /\ Task(t).splittable

\* The docstring of AgendaItem: what gets no share is deferred, there is no item of
\* 0 minutes.
ItemsHaveMinutes == \A i \in DOMAIN agenda : agenda[i].minutes > 0
=============================================================================
