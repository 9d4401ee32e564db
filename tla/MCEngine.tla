------------------------------ MODULE MCEngine ------------------------------
(* Small instances of AgendaEngine for TLC. *)
EXTENDS AgendaEngine, TLC

CONSTANT TaskKinds  \* the tasks a day is made of

Plain ==
  [started |-> FALSE, minutes |-> 2, splittable |-> FALSE, session |-> NoMinutes, starts |-> 0,
   due |-> 3, ready |-> TRUE, constraint |-> "none", locked |-> NoMinutes, waited |-> 0]

\* One task for each way through the classification, and for each way to share in
\* the day.
KindsOfTasks ==
  {[Plain EXCEPT !.started = TRUE, !.due = -1],
   [Plain EXCEPT !.constraint = "must_do_today", !.minutes = 1, !.ready = FALSE],
   [Plain EXCEPT !.constraint = "locked", !.locked = 1],
   [Plain EXCEPT !.due = 0, !.minutes = 1],
   [Plain EXCEPT !.due = -1],
   [Plain EXCEPT !.starts = 1],
   [Plain EXCEPT !.ready = FALSE],
   [Plain EXCEPT !.due = 1],
   [Plain EXCEPT !.minutes = 3],
   [Plain EXCEPT !.minutes = 4, !.splittable = TRUE, !.due = 5],
   [Plain EXCEPT !.minutes = 3, !.splittable = TRUE, !.session = 1, !.waited = 1],
   [Plain EXCEPT !.minutes = 1, !.splittable = TRUE, !.due = 1]}

\* expected_minutes may be 0.
WithoutMinutes == {Plain, [Plain EXCEPT !.minutes = 0]}

Focused == [paused |-> FALSE, focus |-> TRUE, rank |-> 2, gap |-> 0]
Behind == [paused |-> FALSE, focus |-> FALSE, rank |-> 1, gap |-> 2]
Paused == [paused |-> TRUE, focus |-> FALSE, rank |-> 1, gap |-> 1]

\* Two goals, the first with all tasks but the last.
SmallDays ==
  [basis : {"total", "remaining"}, quota : {3}, spent : {1}, weekly : {1},
   forecast : {<<1, 0, 1>>},
   goals : {1 :> Focused @@ 2 :> Behind, 1 :> Behind @@ 2 :> Focused, 1 :> Focused @@ 2 :> Paused},
   goalOf : {[t \in EngineTasks |-> IF t = 3 THEN 2 ELSE 1]},
   tasks : [EngineTasks -> TaskKinds]]
=============================================================================
