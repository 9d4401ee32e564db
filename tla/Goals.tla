-------------------------------- MODULE Goals --------------------------------
(***************************************************************************)
(* The life of goals and their plans (goalflow/goals): create_goal,        *)
(* update_profile_draft, confirm_profile, select_route, activate_plan,     *)
(* pause, resume, close, undo_closure and derive_goal.                     *)
(*                                                                         *)
(* Each command is one write transaction that compares the revision its    *)
(* client has seen with the one of the row.  A command that raises changes *)
(* nothing and is no step.  The contents of profiles are abstracted to the *)
(* kind of goal that their time boundary implies.                          *)
(***************************************************************************)
EXTENDS Naturals

CONSTANTS
  Goals,
  Plans,        \* plan versions; numbers, in the order of their primary keys
  GoalOfPlan,   \* the goal of each plan version
  TasksOf,      \* its tasks; a revised plan keeps tasks of the one before
  Batched,      \* the plan versions that come with an active task batch
  Clients,
  MaxRevision,  \* bound of the revision of each goal
  MaxEdits,     \* bound of the revision of a profile draft
  NoPlan, NoGoal

ASSUME PlansAssumption ==
  /\ Plans \subseteq Nat /\ NoPlan \notin Plans /\ NoGoal \notin Goals
  /\ GoalOfPlan \in [Plans -> Goals]
  /\ DOMAIN TasksOf = Plans
  /\ Batched \subseteq Plans

ASSUME GoalBounds == MaxRevision \in [Goals -> Nat] /\ MaxEdits \in Nat

VARIABLES
  row,       \* table goals
  draft,     \* table goal_profile_drafts
  undoable,  \* the goals closed within the last CLOSURE_UNDO_WINDOW
  plan,      \* table plan_versions: the status of each
  task,      \* table tasks: the execution status of each
  seen       \* the goal each client has read last, and what it has read

goalVars == <<row, draft, undoable, plan, task, seen>>

Open == {"active", "paused"}
Closed == {"completed", "stopped"}
Kinds == {"achievement", "maintenance"}
PlannedTasks == UNION {TasksOf[p] : p \in Plans}
PlansOf(g) == {p \in Plans : GoalOfPlan[p] = g}

Rows ==
  [status   : {"none", "draft"} \cup Open \cup Closed,
   kind     : Kinds,
   profile  : Nat,                       \* version_no of the active profile
   plan     : Plans \cup {NoPlan},       \* current_plan_version_id
   paused   : BOOLEAN,                   \* paused_at IS NOT NULL
   closure  : {"none"} \cup Closed,      \* closure_kind
   was      : {"none"} \cup Open,        \* pre_closure_status in the snapshot
   revision : Nat]

Drafts == [implies : {"none"} \cup Kinds, revision : 0 .. MaxEdits]

GoalTypeOK ==
  /\ row \in [Goals -> Rows]
  /\ draft \in [Goals -> Drafts]
  /\ undoable \subseteq Goals
  /\ plan \in [Plans -> {"none", "draft", "active", "superseded"}]
  /\ task \in [PlannedTasks -> {"proposed", "pending"}]
  /\ seen \in [Clients -> [goal : Goals \cup {NoGoal}, row : Rows, draft : Drafts]]

\* _insert_goal(): every goal begins as an achievement.
NewRow ==
  [status |-> "draft", kind |-> "achievement", profile |-> 0, plan |-> NoPlan,
   paused |-> FALSE, closure |-> "none", was |-> "none", revision |-> 0]

NoRow == [NewRow EXCEPT !.status = "none"]
NewDraft == [implies |-> "none", revision |-> 0]

GoalInit ==
  /\ row = [g \in Goals |-> NoRow]
  /\ draft = [g \in Goals |-> NewDraft]
  /\ undoable = {}
  /\ plan = [p \in Plans |-> "none"]
  /\ task = [t \in PlannedTasks |-> "proposed"]
  /\ seen = [c \in Clients |-> [goal |-> NoGoal, row |-> NoRow, draft |-> NewDraft]]

-----------------------------------------------------------------------------
\* Definitions named X_Y are mutants of X: plausible mistakes that the runs are
\* shown to detect.  No action uses them.

\* _require_revision(), with the revision of the row the client has read.
Current(c, g) ==
  /\ seen[c].goal = g
  /\ seen[c].row.revision = row[g].revision

Update_SameRevision(g, new) == row' = [row EXCEPT ![g] = new]

\* The row is changed and its revision advanced.
Update(g, new) ==
  /\ row[g].revision < MaxRevision[g]
  /\ row' = [row EXCEPT ![g] = [new EXCEPT !.revision = @ + 1]]

CreateGoal(g) ==
  /\ row[g].status = "none"
  /\ row' = [row EXCEPT ![g] = NewRow]
  /\ UNCHANGED <<draft, undoable, plan, task, seen>>

\* A client reads the goal and its profile draft.
ReadGoal(c, g) ==
  /\ row[g].status # "none"
  /\ seen' = [seen EXCEPT ![c] = [goal |-> g, row |-> row[g], draft |-> draft[g]]]
  /\ UNCHANGED <<row, draft, undoable, plan, task>>

\* update_profile_draft() compares the revision of the draft, and advances it.
EditDraft(c, g, kind) ==
  /\ seen[c].goal = g
  /\ seen[c].draft.revision = draft[g].revision
  /\ draft[g].revision < MaxEdits
  /\ draft' = [draft EXCEPT ![g] = [implies |-> kind, revision |-> @.revision + 1]]
  /\ UNCHANGED <<row, undoable, plan, task, seen>>

\* _derive_kind()
DerivedKind(g) == IF draft[g].implies = "none" THEN row[g].kind ELSE draft[g].implies

\* CHECK completed_requires_achievement: without it the transaction fails.
Checked(g, kind) == row[g].closure = "completed" => kind = "achievement"

\* confirm_profile(), whatever the status of the goal; the revision of the draft is
\* not compared.  (Nothing in the code makes a draft "blocked".)
ConfirmProfile(c, g) ==
  /\ Current(c, g)
  /\ Checked(g, DerivedKind(g))
  /\ Update(g, [row[g] EXCEPT !.profile = @ + 1, !.kind = DerivedKind(g)])
  /\ UNCHANGED <<draft, undoable, plan, task, seen>>

\* select_route(), of a route set made from a confirmed profile; the planning
\* session it is noted in is left out.
SelectRoute(c, g) ==
  /\ Current(c, g)
  /\ row[g].profile > 0
  /\ Update(g, row[g])
  /\ UNCHANGED <<draft, undoable, plan, task, seen>>

\* A plan version is drafted from a confirmed profile.
DraftPlan(p) ==
  /\ plan[p] = "none"
  /\ row[GoalOfPlan[p]].profile > 0
  /\ plan' = [plan EXCEPT ![p] = "draft"]
  /\ UNCHANGED <<row, draft, undoable, task, seen>>

-----------------------------------------------------------------------------
ActivePlans(g) == {p \in PlansOf(g) : plan[p] = "active"}

\* The rows of plan_versions are updated in one flush, in the order of their keys,
\* and uq_plan_versions_active_per_goal is looked at after each: the new version
\* must come after the one it supersedes.
FlushSucceeds(p) == \A q \in ActivePlans(GoalOfPlan[p]) : q < p

Superseded(p) == [q \in Plans |->
  IF q = p THEN "active" ELSE IF q \in ActivePlans(GoalOfPlan[p]) THEN "superseded" ELSE plan[q]]

ReleasedTasks_OfAnyPlan(p) == TasksOf[p]

\* The proposed tasks of a plan with an active batch.
ReleasedTasks(p) == IF p \in Batched THEN TasksOf[p] ELSE {}

ActivatablePlan(p) == plan[p] = "draft" /\ row[GoalOfPlan[p]].status \in {"draft", "active"}

Activated_KeepsOldPlan(g, p) ==
  [row[g] EXCEPT !.status = "active", !.plan = IF @ = NoPlan THEN p ELSE @]

Activated(g, p) == [row[g] EXCEPT !.status = "active", !.plan = p]

ActivatePlan(c, p) ==
  LET g == GoalOfPlan[p]
  IN  /\ Current(c, g)
      /\ ActivatablePlan(p)
      /\ FlushSucceeds(p)
      /\ plan' = Superseded(p)
      /\ Update(g, Activated(g, p))
      /\ task' = [t \in PlannedTasks |-> IF t \in ReleasedTasks(p) THEN "pending" ELSE task[t]]
      /\ UNCHANGED <<draft, undoable, seen>>

PauseGoal(c, g) ==
  /\ Current(c, g)
  /\ row[g].status = "active"
  /\ Update(g, [row[g] EXCEPT !.status = "paused", !.paused = TRUE])
  /\ UNCHANGED <<draft, undoable, plan, task, seen>>

\* resume_goal(), unless a snapshot of the shared budget, read in a transaction
\* before, says that it is exceeded; the snapshot is only a hint (A11).
ResumeGoal(c, g) ==
  /\ Current(c, g)
  /\ row[g].status = "paused"
  /\ Update(g, [row[g] EXCEPT !.status = "active", !.paused = FALSE])
  /\ UNCHANGED <<draft, undoable, plan, task, seen>>

\* close_goal(): only an achievement can be completed, and not while paused.
CloseGoal(c, g, closure) ==
  /\ Current(c, g)
  /\ row[g].status \in Open
  /\ closure = "completed" => row[g].kind = "achievement" /\ row[g].status # "paused"
  /\ Update(g, [row[g] EXCEPT !.status = closure, !.closure = closure, !.was = row[g].status])
  /\ undoable' = undoable \cup {g}
  /\ UNCHANGED <<draft, plan, task, seen>>

\* CLOSURE_UNDO_WINDOW has passed since the goal was closed.
WindowPasses(g) ==
  /\ g \in undoable
  /\ undoable' = undoable \ {g}
  /\ UNCHANGED <<row, draft, plan, task, seen>>

Reopened_AsActive(g) == [row[g] EXCEPT !.status = "active", !.closure = "none", !.was = "none"]

Reopened(g) == [row[g] EXCEPT !.status = row[g].was, !.closure = "none", !.was = "none"]

UndoClosure(c, g) ==
  /\ Current(c, g)
  /\ row[g].status \in Closed
  /\ g \in undoable
  /\ Update(g, Reopened(g))
  /\ undoable' = undoable \ {g}
  /\ UNCHANGED <<draft, plan, task, seen>>

\* derive_goal(): a new goal of the same kind, whose draft is a copy of the source's
\* profile, with a time boundary made up from the kind.
DeriveGoal(c, g, new) ==
  /\ Current(c, g)
  /\ row[g].status \in Closed
  /\ row[new].status = "none"
  /\ row' = [row EXCEPT ![new] = [NewRow EXCEPT !.kind = row[g].kind]]
  /\ draft' = [draft EXCEPT ![new] =
       [NewDraft EXCEPT !.implies = IF row[g].profile = 0 THEN "none" ELSE row[g].kind]]
  /\ UNCHANGED <<undoable, plan, task, seen>>

GoalNext ==
  \/ \E g \in Goals : CreateGoal(g) \/ WindowPasses(g)
  \/ \E c \in Clients, g \in Goals :
       \/ ReadGoal(c, g)
       \/ \E kind \in Kinds : EditDraft(c, g, kind)
       \/ ConfirmProfile(c, g) \/ SelectRoute(c, g)
       \/ PauseGoal(c, g) \/ ResumeGoal(c, g)
       \/ \E closure \in Closed : CloseGoal(c, g, closure)
       \/ UndoClosure(c, g)
       \/ \E new \in Goals : DeriveGoal(c, g, new)
  \/ \E p \in Plans : DraftPlan(p) \/ \E c \in Clients : ActivatePlan(c, p)

GoalSpec == GoalInit /\ [][GoalNext]_goalVars

-----------------------------------------------------------------------------
\* A goal and its plan agree: exactly the current plan of a goal is active, and a
\* goal has one from its first activation on (03, section 1; A10).
ActivePlanIsCurrent ==
  \A g \in Goals :
    /\ ActivePlans(g) = {row[g].plan} \ {NoPlan}
    /\ row[g].plan = NoPlan <=> row[g].status \in {"none", "draft"}

\* Tasks leave "proposed" with the activation of a plan with a batch they were drafted
\* for and not before, also when plans share tasks (03, section 3; R05): the tasks of
\* the active plan are pending, and a pending task is one of a plan that is or was
\* active.  Nothing is claimed of a task that only a superseded plan has: it is to be
\* cancelled, with the reason, by 03, section 3, and stays pending in the code.
TasksFollowPlans ==
  /\ \A p \in Batched : plan[p] = "active" => \A t \in TasksOf[p] : task[t] = "pending"
  /\ \A t \in PlannedTasks : task[t] = "pending" =>
       \E p \in Batched : t \in TasksOf[p] /\ plan[p] \in {"active", "superseded"}

\* A revision stands for one content of the row, and of the draft: a client whose
\* expected_revision is accepted has seen what its command is applied to.
RevisionNamesTheRow ==
  \A c \in Clients, g \in Goals : seen[c].goal = g =>
    /\ seen[c].row.revision = row[g].revision => seen[c].row = row[g]
    /\ seen[c].draft.revision = draft[g].revision => seen[c].draft = draft[g]

\* The five columns about the life of a goal agree however pausing, closing and
\* undoing are nested (17, section 4): what is recorded of a closure fits the
\* status, an open goal has its pause recorded exactly if it is paused, and a
\* completed goal is an achievement even when a profile is confirmed after its
\* completion (D12).
ClosureFitsStatus ==
  \A g \in Goals :
    /\ row[g].status \in Closed <=> row[g].closure # "none"
    /\ row[g].closure # "none" => row[g].closure = row[g].status /\ row[g].was \in Open
    /\ row[g].closure = "completed" => row[g].kind = "achievement"
    /\ row[g].status \in Open => (row[g].paused <=> row[g].status = "paused")

\* What the comment in _do_activate_plan says: the old active version of the goal
\* makes way for the new one, whichever it is.
OldVersionMakesWay == \A p \in Plans : ActivatablePlan(p) => FlushSucceeds(p)
=============================================================================
